---- MODULE Spec2Model ----
(***************************************************************************)
(* Verification model of SuperTimecodeConverter.                           *)
(*                                                                         *)
(* The module holds several specifications, one per subsystem, over one   *)
(* set of variables:                                                       *)
(*   SpecRing        LtcInput pass-through ring buffer (producer/consumer) *)
(*   SpecLtc         LtcOutput encoder wired to the LtcInput decoder       *)
(*   SpecMtc         MtcOutput, the MIDI cable and MtcInput                *)
(*   SpecMtcSched    the quarter-frame scheduler of MtcOutput              *)
(*   SpecMtcCadence  the quarter-frame cadence over a long run             *)
(*   SpecArt         ArtnetOutput, the network and ArtnetInput             *)
(*   SpecEngine      one TimecodeEngine under the 60 Hz timer              *)
(*   SpecHost        the engine list of MainComponent and audio devices    *)
(*   SpecStartup     MainComponent start-up from a settings file           *)
(*   SpecCore        the timecode arithmetic of TimecodeCore.h             *)
(*   SpecLtcRate     one engine on LTC: rate buttons and detected rates    *)
(*   SpecStall       the timed outputs while the message thread is stalled *)
(*   SpecMtcCycle    one quarter-frame cycle against setTimecode           *)
(*   SpecMtcPause    MtcOutput paused and resumed                          *)
(*   SpecArtCadence  the packets of ArtnetOutput over a long run           *)
(*   SpecLtcMeter    the peak meter of LtcOutput around a pause            *)
(*   SpecRoute       the outputs of one engine and their offset sliders    *)
(*   SpecDrop        ArtnetInput and the LTC decoder on failing input      *)
(*   SpecLtcDetect   the rate detection of the LTC decoder                 *)
(*   SpecReload      the override flag through a settings file             *)
(*   SpecMtcListen   MtcInput listening to a 29.97 drop-frame sender       *)
(* Each specification initialises every variable and leaves the variables *)
(* of the other subsystems unchanged.                                      *)
(***************************************************************************)
EXTENDS Integers, Naturals, Sequences, FiniteSets, TLC

(***************************************************************************)
(* Pass-through ring buffer: src/LtcInput.h                                *)
(***************************************************************************)
VARIABLES
    passthruBuffer,      \* LtcInput::passthruBuffer, slot -> sample (0 = memset value)
    passthruWritePos,    \* LtcInput::passthruWritePos (unsigned, wraps at PosMod)
    passthruReadPos,     \* LtcInput::passthruReadPos  (unsigned, wraps at PosMod)
    passthruOverruns,    \* LtcInput::passthruOverruns
    passthruUnderruns,   \* LtcInput::passthruUnderruns
    prod,                \* locals of the LtcInput audio callback in progress
    cons,                \* locals of readPassthruSamples in progress
    thruSync,            \* position of syncPassthruReadPosition (UI thread)
    thruAttached,        \* the AudioThru callback is registered
    inSeq,               \* number of samples the input device has delivered
    writtenIds,          \* history: samples stored in the ring so far
    lastReturned         \* history: last non-fill sample handed to the consumer

ringVars == <<passthruBuffer, passthruWritePos, passthruReadPos, passthruOverruns,
              passthruUnderruns, prod, cons, thruSync, thruAttached, inSeq,
              writtenIds, lastReturned>>

(***************************************************************************)
(* LTC encoder (src/LtcOutput.h) wired to the LTC decoder (src/LtcInput.h) *)
(***************************************************************************)
VARIABLES
    ltcOut,          \* LtcOutput: encoder state and the atomics the UI writes
    ltcIn,           \* LtcInput: decoder state and the atomics it publishes
    ltcWire,         \* the block of samples on the cable from LtcOutput to LtcInput
    ltcEmitted,      \* history: timecodes packFrame has encoded, in order
    ltcPublished     \* history: timecodes onSyncWordDetected has published, in order

ltcVars == <<ltcOut, ltcIn, ltcWire, ltcEmitted, ltcPublished>>

(***************************************************************************)
(* MTC: MtcOutput (src/MtcOutput.h), the MIDI cable, MtcInput              *)
(* (src/MtcInput.h)                                                        *)
(***************************************************************************)
VARIABLES
    now,             \* juce::Time::getMillisecondCounterHiRes(), in 1/480 ms
    mtcOut,          \* MtcOutput
    mtcIn,           \* MtcInput
    midiWire,        \* MIDI messages sent and not yet delivered
    mtcCb,           \* history: what the last hiResTimerCallback did
    mtcTx,           \* history: quarter-frames sent since the cadence began
    mtcRx            \* history: in-order quarter-frames handled since index 0

mtcVars == <<now, mtcOut, mtcIn, midiWire, mtcCb, mtcTx, mtcRx>>

\* the MTC variables other than the clock
mtcState == <<mtcOut, mtcIn, midiWire, mtcCb, mtcTx, mtcRx>>

(***************************************************************************)
(* Art-Net: ArtnetOutput (src/ArtnetOutput.h), the network, ArtnetInput    *)
(* (src/ArtnetInput.h); the clock is now                                   *)
(***************************************************************************)
VARIABLES
    artOut,          \* ArtnetOutput
    artIn,           \* ArtnetInput
    artWire,         \* datagrams sent and not yet read
    artSent          \* history: datagrams sent, what they were sent for, UI calls

artVars == <<artOut, artIn, artWire, artSent>>

(***************************************************************************)
(* MainComponent (src/MainComponent.cpp) and its TimecodeEngines           *)
(* (src/TimecodeEngine.h); the clock is now                                *)
(***************************************************************************)
VARIABLES
    host             \* MainComponent: engines, selectedEngine, and history

(***************************************************************************)
(* One call of a function of src/TimecodeCore.h: arguments and result      *)
(***************************************************************************)
VARIABLES
    calc

(***************************************************************************)
(* The JUCE message thread: it runs every juce::Timer callback, those of   *)
(* MainComponent (tick) and of ArtnetOutput among them                     *)
(***************************************************************************)
VARIABLES
    msgThread

vars == <<ringVars, ltcVars, mtcVars, artVars, host, calc, msgThread>>

\* the variables a ring action leaves alone
notRing == <<ltcVars, mtcVars, artVars, host, calc, msgThread>>

\* the variables an LTC action leaves alone
notLtc == <<ringVars, mtcVars, artVars, host, calc, msgThread>>

\* the variables an MTC action leaves alone
notMtc == <<ringVars, ltcVars, artVars, host, calc, msgThread>>

\* the variables an Art-Net action leaves alone
notArt == <<ringVars, ltcVars, mtcState, host, calc, msgThread>>

\* the variables an action of MainComponent leaves alone, the clock apart
notHost == <<ringVars, ltcVars, mtcState, artVars, calc, msgThread>>

\* ---- bounds of the ring model ----
RingBits == 2
PosBits == 3
MaxBlock == 3
MaxSamples == 9
MaxUnderruns == 2

RING_SIZE == 2 ^ RingBits
RING_MASK == RING_SIZE - 1
PosMod == 2 ^ PosBits

\* uint32_t arithmetic, with the width scaled to PosBits
U32(x) == x % PosMod

\* x & RING_MASK for a non-negative x and RING_MASK = 2^k - 1
AndMask(x) == x % (RING_MASK + 1)

jmin(a, b) == IF a < b THEN a ELSE b

\* short is history: the callbacks so far that stored fewer samples than they got
ProdIdle ==
    [pc |-> "idle", wp |-> 0, rp |-> 0, toWrite |-> 0, i |-> 0, n |-> 0, base |-> 0,
     short |-> 0]
ConsIdle == [pc |-> "idle", wp |-> 0, rp |-> 0, toRead |-> 0, i |-> 0, n |-> 0, dest |-> <<>>]

RingInit ==
    /\ passthruBuffer = [s \in 0..(RING_SIZE - 1) |-> 0]
    /\ passthruWritePos = 0
    /\ passthruReadPos = 0
    /\ passthruOverruns = 0
    /\ passthruUnderruns = 0
    /\ prod = ProdIdle
    /\ cons = ConsIdle
    /\ thruSync = [pc |-> "idle", wp |-> 0]
    /\ thruAttached = FALSE
    /\ inSeq = 0
    /\ writtenIds = {}
    /\ lastReturned = 0

\* toWrite of the producer callback (LtcInput.h:386-394)
ToWriteUnguarded(wp, rp, numSamples) == numSamples
\* toWrite without the reserved slot
ToWriteNoSentinel(wp, rp, numSamples) == jmin(numSamples, U32(RING_SIZE - U32(wp - rp)))
ToWrite(wp, rp, numSamples) ==
    LET used == U32(wp - rp)
        freeSlots == U32(RING_SIZE - used)
    IN IF freeSlots >= 2 THEN jmin(numSamples, freeSlots - 1) ELSE 0

\* toRead of the consumer (LtcInput.h:155-159)
ToRead(wp, rp, numSamples) == jmin(numSamples, U32(wp - rp))

\* Producer: the device delivers numSamples samples numbered inSeq+1 .. inSeq+n.
\* Step 1: load passthruWritePos (relaxed).
ProducerLoadWp ==
    /\ prod.pc = "idle"
    /\ \E n \in 1..MaxBlock :
         /\ inSeq + n <= MaxSamples
         /\ prod' = [ProdIdle EXCEPT !.pc = "loadRp", !.wp = passthruWritePos,
                                     !.n = n, !.base = inSeq, !.short = prod.short]
         /\ inSeq' = inSeq + n
    /\ UNCHANGED notRing
    /\ UNCHANGED <<passthruBuffer, passthruWritePos, passthruReadPos, passthruOverruns,
                   passthruUnderruns, cons, thruSync, thruAttached, writtenIds,
                   lastReturned>>

\* Step 2: load passthruReadPos (acquire), compute toWrite, count an overrun.
ProducerLoadRp ==
    /\ prod.pc = "loadRp"
    /\ LET tw == ToWrite(prod.wp, passthruReadPos, prod.n)
       IN /\ prod' = [prod EXCEPT !.pc = "write", !.rp = passthruReadPos,
                                  !.toWrite = tw, !.i = 0]
          /\ passthruOverruns' = IF tw < prod.n THEN passthruOverruns + 1
                                 ELSE passthruOverruns
    /\ UNCHANGED notRing
    /\ UNCHANGED <<passthruBuffer, passthruWritePos, passthruReadPos,
                   passthruUnderruns, cons, thruSync, thruAttached, inSeq,
                   writtenIds, lastReturned>>

\* Step 3: the loop body for one i < toWrite: store one sample in its slot.
ProducerWriteSample ==
    /\ prod.pc = "write"
    /\ prod.i < prod.toWrite
    /\ passthruBuffer' = [passthruBuffer EXCEPT
                             ![AndMask(U32(prod.wp + prod.i))] = prod.base + prod.i + 1]
    /\ writtenIds' = writtenIds \cup {prod.base + prod.i + 1}
    /\ prod' = [prod EXCEPT !.i = prod.i + 1]
    /\ UNCHANGED notRing
    /\ UNCHANGED <<passthruWritePos, passthruReadPos, passthruOverruns,
                   passthruUnderruns, cons, thruSync, thruAttached, inSeq,
                   lastReturned>>

\* Step 4: publish passthruWritePos (release).
ProducerStoreWp ==
    /\ prod.pc = "write"
    /\ prod.i >= prod.toWrite
    /\ passthruWritePos' = U32(prod.wp + prod.toWrite)
    /\ prod' = [ProdIdle EXCEPT !.short = prod.short + (IF prod.i < prod.n THEN 1 ELSE 0)]
    /\ UNCHANGED notRing
    /\ UNCHANGED <<passthruBuffer, passthruReadPos, passthruOverruns,
                   passthruUnderruns, cons, thruSync, thruAttached, inSeq,
                   writtenIds, lastReturned>>

\* Consumer: readPassthruSamples(dest, numSamples), called by the AudioThru callback.
\* Step 1: load passthruWritePos (acquire).
ConsumerLoadWp ==
    /\ cons.pc = "idle"
    /\ thruAttached
    /\ passthruUnderruns < MaxUnderruns
    /\ \E n \in 1..MaxBlock :
         cons' = [ConsIdle EXCEPT !.pc = "loadRp", !.wp = passthruWritePos, !.n = n]
    /\ lastReturned' = IF cons.toRead > 0 THEN cons.dest[cons.toRead] ELSE lastReturned
    /\ UNCHANGED notRing
    /\ UNCHANGED <<passthruBuffer, passthruWritePos, passthruReadPos, passthruOverruns,
                   passthruUnderruns, prod, thruSync, thruAttached, inSeq, writtenIds>>

\* Step 2: load passthruReadPos (relaxed), compute toRead, count an underrun.
ConsumerLoadRp ==
    /\ cons.pc = "loadRp"
    /\ LET tr == ToRead(cons.wp, passthruReadPos, cons.n)
       IN /\ cons' = [cons EXCEPT !.pc = "read", !.rp = passthruReadPos,
                                  !.toRead = tr, !.i = 0]
          /\ passthruUnderruns' = IF tr < cons.n THEN passthruUnderruns + 1
                                  ELSE passthruUnderruns
    /\ UNCHANGED notRing
    /\ UNCHANGED <<passthruBuffer, passthruWritePos, passthruReadPos, passthruOverruns,
                   prod, thruSync, thruAttached, inSeq, writtenIds, lastReturned>>

\* Step 3: the copy loop, one sample per step.
ConsumerReadSample ==
    /\ cons.pc = "read"
    /\ cons.i < cons.toRead
    /\ cons' = [cons EXCEPT !.i = cons.i + 1,
                            !.dest = Append(cons.dest,
                                            passthruBuffer[AndMask(U32(cons.rp + cons.i))])]
    /\ UNCHANGED notRing
    /\ UNCHANGED <<passthruBuffer, passthruWritePos, passthruReadPos, passthruOverruns,
                   passthruUnderruns, prod, thruSync, thruAttached, inSeq, writtenIds,
                   lastReturned>>

\* Step 4: zero-fill the tail and publish passthruReadPos (release).
ConsumerStoreRp ==
    /\ cons.pc = "read"
    /\ cons.i >= cons.toRead
    /\ passthruReadPos' = U32(cons.rp + cons.toRead)
    /\ cons' = [cons EXCEPT !.pc = "idle",
                            !.dest = cons.dest \o [k \in 1..(cons.n - cons.toRead) |-> 0]]
    /\ UNCHANGED notRing
    /\ UNCHANGED <<passthruBuffer, passthruWritePos, passthruOverruns,
                   passthruUnderruns, prod, thruSync, thruAttached, inSeq, writtenIds,
                   lastReturned>>

\* AudioThru::stop via stopThruOutput: removeAudioCallback returns only when no
\* callback is in flight.
ThruDetach ==
    /\ thruAttached
    /\ cons.pc = "idle"
    /\ thruSync.pc = "idle"
    /\ thruAttached' = FALSE
    /\ lastReturned' = IF cons.toRead > 0 THEN cons.dest[cons.toRead] ELSE lastReturned
    /\ cons' = ConsIdle
    /\ UNCHANGED notRing
    /\ UNCHANGED <<passthruBuffer, passthruWritePos, passthruReadPos, passthruOverruns,
                   passthruUnderruns, prod, thruSync, inSeq, writtenIds>>

\* syncPassthruReadPosition, called by startThruOutput while AudioThru is stopped:
\* load passthruWritePos (acquire) ...
SyncLoadWp ==
    /\ ~thruAttached
    /\ thruSync.pc = "idle"
    /\ thruSync' = [pc |-> "store", wp |-> passthruWritePos]
    /\ UNCHANGED notRing
    /\ UNCHANGED <<passthruBuffer, passthruWritePos, passthruReadPos, passthruOverruns,
                   passthruUnderruns, prod, cons, thruAttached, inSeq, writtenIds,
                   lastReturned>>

\* ... store it to passthruReadPos (release); AudioThru::start then adds the callback.
SyncStoreRp ==
    /\ thruSync.pc = "store"
    /\ passthruReadPos' = thruSync.wp
    /\ thruSync' = [pc |-> "idle", wp |-> 0]
    /\ thruAttached' = TRUE
    /\ UNCHANGED notRing
    /\ UNCHANGED <<passthruBuffer, passthruWritePos, passthruOverruns,
                   passthruUnderruns, prod, cons, inSeq, writtenIds, lastReturned>>

RingNext ==
    \/ ProducerLoadWp
    \/ ProducerLoadRp
    \/ ProducerWriteSample
    \/ ProducerStoreWp
    \/ ConsumerLoadWp
    \/ ConsumerLoadRp
    \/ ConsumerReadSample
    \/ ConsumerStoreRp
    \/ ThruDetach
    \/ SyncLoadWp
    \/ SyncStoreRp

\* ---- C1 ----
RingUsed == U32(passthruWritePos - passthruReadPos)

\* The samples readPassthruSamples has copied so far in the current call
ConsCopied == SubSeq(cons.dest, 1, jmin(cons.toRead, Len(cons.dest)))

\* C1: for every interleaving of the producer callback and readPassthruSamples,
\* read_pos never passes write_pos (the wrapping distance write_pos - read_pos is
\* at most CAPACITY - 1), every sample returned outside the zero-fill tail was
\* stored by the producer before, and samples come back in write order, none twice;
\* the tail after toRead is zero.
C1_RingSafe ==
    /\ RingUsed <= RING_SIZE - 1
    /\ \A k \in 1..Len(ConsCopied) :
         /\ ConsCopied[k] \in writtenIds
         /\ ConsCopied[k] > (IF k = 1 THEN lastReturned ELSE ConsCopied[k - 1])
    /\ \A k \in 1..Len(cons.dest) : k > cons.toRead => cons.dest[k] = 0

\* A call whose read position wrapped, which returned a sample next to a
\* zero-filled tail while the producer is in the middle of a callback
C1_Witness ==
    /\ cons.pc = "idle"
    /\ cons.toRead >= 1
    /\ cons.toRead < cons.n
    /\ passthruReadPos < cons.rp
    /\ prod.pc = "write"

\* ---- C18 ----
\* no sample has been returned and the positions have not moved off the start
\* of the buffer: the producer has been writing with no reader
NoReaderYet ==
    /\ passthruReadPos = 0 /\ lastReturned = 0 /\ cons.toRead = 0
    /\ Cardinality(writtenIds) < PosMod

\* C18: while the producer writes with no reader, write_pos - read_pos is the
\* number of samples offered up to CAPACITY - 1 = RING_SIZE - 1, where it stays;
\* the buffer then holds the first CAPACITY - 1 samples in order, and the first
\* reads return them in that order; the overrun counter is the number of
\* callbacks that stored fewer samples than they were given.
C18_Saturation ==
    /\ RingUsed <= RING_SIZE - 1
    /\ prod.pc = "idle" => passthruOverruns = prod.short
    /\ (prod.pc = "write" /\ prod.i = prod.toWrite) =>
           passthruOverruns = prod.short + (IF prod.i < prod.n THEN 1 ELSE 0)
    /\ (NoReaderYet /\ prod.pc = "idle") =>
           /\ passthruWritePos = jmin(inSeq, RING_SIZE - 1)
           /\ \A p \in 0..(passthruWritePos - 1) : passthruBuffer[p] = p + 1
           /\ passthruOverruns > 0 => RingUsed = RING_SIZE - 1
    /\ (lastReturned = cons.rp /\ cons.wp <= RING_SIZE - 1 /\ cons.rp <= cons.wp
           /\ Cardinality(writtenIds) < PosMod) =>
           \A k \in 1..Len(ConsCopied) : ConsCopied[k] = cons.rp + k

\* after three callbacks with no reader, two of them short, the ring is full and
\* the first read has copied samples from its start
C18_Witness ==
    /\ passthruOverruns >= 2
    /\ cons.pc = "read" /\ cons.rp = 0 /\ lastReturned = 0
    /\ cons.wp = RING_SIZE - 1
    /\ cons.toRead >= 1 /\ cons.i = cons.toRead

(***************************************************************************)
(* TimecodeCore.h: frame rates, timecodes, packing                         *)
(***************************************************************************)
FrameRates == {"FPS_2398", "FPS_24", "FPS_25", "FPS_2997", "FPS_30"}

\* frameRateToDouble(fps) as the fraction FpsNum / FpsDen
FpsNum(fps) ==
    CASE fps = "FPS_2398" -> 24000
      [] fps = "FPS_24"   -> 24
      [] fps = "FPS_25"   -> 25
      [] fps = "FPS_2997" -> 30000
      [] OTHER            -> 30

FpsDen(fps) == IF fps \in {"FPS_2398", "FPS_2997"} THEN 1001 ELSE 1

frameRateToInt(fps) ==
    CASE fps = "FPS_2398" -> 24
      [] fps = "FPS_24"   -> 24
      [] fps = "FPS_25"   -> 25
      [] OTHER            -> 30

Tc(h, m, s, f) == [hours |-> h, minutes |-> m, seconds |-> s, frames |-> f]

\* incrementFrame without the drop-frame skip
incrementFrameLinear(tc, fps) ==
    LET total == tc.hours * 3600 * frameRateToInt(fps) + tc.minutes * 60 * frameRateToInt(fps)
                     + tc.seconds * frameRateToInt(fps) + tc.frames + 1
        maxFrames == frameRateToInt(fps)
    IN Tc((total \div (maxFrames * 3600)) % 24, (total \div (maxFrames * 60)) % 60,
          (total \div maxFrames) % 60, total % maxFrames)

incrementFrame(tc, fps) ==
    LET maxFrames == frameRateToInt(fps)
        f1 == tc.frames + 1
        c1 == f1 >= maxFrames
        s1 == IF c1 THEN tc.seconds + 1 ELSE tc.seconds
        c2 == s1 >= 60
        m1 == IF c2 THEN tc.minutes + 1 ELSE tc.minutes
        c3 == m1 >= 60
        h1 == IF c3 THEN tc.hours + 1 ELSE tc.hours
        f2 == IF c1 THEN 0 ELSE f1
        s2 == IF c2 THEN 0 ELSE s1
        m2 == IF c3 THEN 0 ELSE m1
        h2 == IF h1 >= 24 THEN 0 ELSE h1
    IN IF fps = "FPS_2997" /\ f2 = 0 /\ s2 = 0 /\ (m2 % 10) # 0
       THEN Tc(h2, m2, s2, 2)
       ELSE Tc(h2, m2, s2, f2)

\* packTimecode keeps the low byte of each field; the packed word is the
\* tuple of its four bytes, most significant first
ByteMod == 256
packTimecode(h, m, s, f) == <<h % ByteMod, m % ByteMod, s % ByteMod, f % ByteMod>>
unpackTimecode(packed) == Tc(packed[1], packed[2], packed[3], packed[4])

\* bit k of a non-negative integer: (v >> k) & 1
BitOf(v, k) == (v \div (2 ^ k)) % 2

(***************************************************************************)
(* LtcOutput.h: the LTC encoder                                            *)
(***************************************************************************)
\* ---- bounds of the LTC model ----
LtcBufferSize == 512      \* samples per audio callback
LtcMaxFrames == 5         \* frames the encoder packs in a run

\* currentSampleRate (both handlers default to 48000.0)
currentSampleRate == 48000
LTC_FRAME_BITS == 80
\* baseAmplitude 0.8 times the default output gain 1.0, in hundredths of full scale
baseAmplitude == 80

\* samplesPerHalfBit = currentSampleRate / (fps * 80 * 2.0), kept as a fraction
updateSamplesPerBit(fps) ==
    [num |-> currentSampleRate * FpsDen(fps), den |-> FpsNum(fps) * LTC_FRAME_BITS * 2]

\* the toTotal lambda of packFrame
toTotal(t, maxFrames) ==
    t.hours * 3600 * maxFrames + t.minutes * 60 * maxFrames
        + t.seconds * maxFrames + t.frames

\* packFrame, first part: the timecode the next frame carries
NextEncoderTc(e) ==
    LET fps == e.pendingFps
        pendingTc == unpackTimecode(e.packedPendingTc)
        inc == incrementFrame(e.encoderTc, fps)
        maxFrames == frameRateToInt(fps)
        dayFrames == 24 * 3600 * maxFrames
        rawDiff == toTotal(pendingTc, maxFrames) - toTotal(inc, maxFrames)
        m == rawDiff % dayFrames
        diff == IF m > dayFrames \div 2 THEN dayFrames - m ELSE m
    IN IF ~e.encoderSeeded THEN pendingTc
       ELSE IF diff > 1 THEN pendingTc ELSE inc

\* packFrame, second part: bit b (0..79) before the two parity bits are set
RawFrameBit(tc, fps, b) ==
    CASE b \in 0..3   -> BitOf(tc.frames % 10, b)
      [] b \in 8..9   -> BitOf(tc.frames \div 10, b - 8)
      [] b = 10       -> IF fps = "FPS_2997" THEN 1 ELSE 0
      [] b \in 16..19 -> BitOf(tc.seconds % 10, b - 16)
      [] b \in 24..26 -> BitOf(tc.seconds \div 10, b - 24)
      [] b \in 32..35 -> BitOf(tc.minutes % 10, b - 32)
      [] b \in 40..42 -> BitOf(tc.minutes \div 10, b - 40)
      [] b \in 48..51 -> BitOf(tc.hours % 10, b - 48)
      [] b \in 56..57 -> BitOf(tc.hours \div 10, b - 56)
      [] b \in 66..77 -> 1
      [] b = 79       -> 1
      [] OTHER        -> 0

RECURSIVE SumBits(_, _, _, _)
SumBits(tc, fps, lo, hi) ==
    IF lo > hi THEN 0 ELSE RawFrameBit(tc, fps, lo) + SumBits(tc, fps, lo + 1, hi)

\* frameBits[0..79] is the sequence element 1..80
packFrame(tc, fps) ==
    LET parityLow == SumBits(tc, fps, 0, 26)
        parityHigh == SumBits(tc, fps, 32, 58)
    IN [k \in 1..LTC_FRAME_BITS |->
            CASE k - 1 = 27 -> parityLow % 2
              [] k - 1 = 59 -> parityHigh % 2
              [] OTHER      -> RawFrameBit(tc, fps, k - 1)]

\* resetEncoder plus the defaults of the atomics
LtcOutputReset(fps, packedTc) ==
    [frameBits |-> [k \in 1..LTC_FRAME_BITS |-> 0],
     currentBitIndex |-> 0,
     halfCellIndex |-> 0,
     samplePositionInHalfBit |-> 0,
     samplesPerHalfBit |-> updateSamplesPerBit(fps),
     currentLevel |-> 1,
     needNewFrame |-> TRUE,
     encoderTc |-> Tc(0, 0, 0, 0),
     encoderSeeded |-> FALSE,
     packedPendingTc |-> packedTc,
     pendingFps |-> fps,
     paused |-> FALSE,
     peakLevel |-> 0,
     \* the audio thread: "idle", or "running" past the test of paused
     callback |-> "idle",
     \* history: the level of the last sample written, and the bit cells that
     \* began at the level the cell before them ended on
     lastSample |-> 0,
     flatBoundaries |-> 0,
     \* history: the peak was stored by a callback that a setPaused(true)
     \* overtook
     lateStore |-> FALSE]

\* setPaused(p) on the encoder
LtcEncSetPaused(e, p) ==
    [e EXCEPT !.paused = p, !.peakLevel = IF p THEN 0 ELSE @,
              !.lateStore = IF p THEN @ ELSE FALSE]

\* the if (needNewFrame) block of the sample loop
EncNewFrame(e) ==
    LET tc == NextEncoderTc(e)
    IN [e EXCEPT !.samplesPerHalfBit = updateSamplesPerBit(e.pendingFps),
                 !.encoderTc = tc,
                 !.encoderSeeded = TRUE,
                 !.frameBits = packFrame(tc, e.pendingFps),
                 !.currentBitIndex = 0,
                 !.halfCellIndex = 0,
                 !.samplePositionInHalfBit = 0,
                 !.needNewFrame = FALSE]

\* the end of a half cell: the body of if (samplePositionInHalfBit >= samplesPerHalfBit)
EncHalfCellEnd(e) ==
    IF e.halfCellIndex = 0
    THEN [e EXCEPT !.halfCellIndex = 1,
                   !.currentLevel = IF e.frameBits[e.currentBitIndex + 1] = 1
                                    THEN -e.currentLevel ELSE e.currentLevel]
    ELSE [e EXCEPT !.halfCellIndex = 0,
                   !.currentBitIndex = e.currentBitIndex + 1,
                   !.needNewFrame = IF e.currentBitIndex + 1 >= LTC_FRAME_BITS
                                    THEN TRUE ELSE e.needNewFrame,
                   !.currentLevel = IF e.currentBitIndex + 1 >= LTC_FRAME_BITS
                                    THEN e.currentLevel ELSE -e.currentLevel]

\* one iteration of the sample loop of LtcOutput::audioDeviceIOCallbackWithContext
\* from the line float sample = ... on; e1 is the encoder after the
\* if (needNewFrame) block
EncSampleFrom(r, e1) ==
    LET sample == e1.currentLevel * baseAmplitude
        pos == e1.samplePositionInHalfBit + e1.samplesPerHalfBit.den
        flat == /\ r.e.lastSample = sample
                /\ e1.halfCellIndex = 0
                /\ e1.samplePositionInHalfBit < e1.samplesPerHalfBit.den
        e2 == IF pos >= e1.samplesPerHalfBit.num
              THEN EncHalfCellEnd([e1 EXCEPT !.samplePositionInHalfBit =
                                                 pos - e1.samplesPerHalfBit.num])
              ELSE [e1 EXCEPT !.samplePositionInHalfBit = pos]
    IN [e |-> [e2 EXCEPT !.lastSample = sample,
                         !.flatBoundaries = IF flat THEN @ + 1 ELSE @],
        out |-> Append(r.out, sample),
        packed |-> IF r.e.needNewFrame THEN Append(r.packed, e1.encoderTc) ELSE r.packed]

\* one iteration of the sample loop; r carries the encoder, the samples
\* written and the timecodes packed so far
EncSample(r) ==
    EncSampleFrom(r, IF r.e.needNewFrame THEN EncNewFrame(r.e) ELSE r.e)

\* the sample loop for i = 1..n, evaluated by halves to keep the nesting shallow
\* (the test on the first half makes it a value before the second half starts)
RECURSIVE EncLoop(_, _)
EncLoop(r, n) ==
    IF n = 0 THEN r
    ELSE IF n = 1 THEN EncSample(r)
    ELSE LET half == EncLoop(r, n \div 2)
         IN IF half.e.needNewFrame \in BOOLEAN
            THEN EncLoop(half, n - (n \div 2))
            ELSE half

(***************************************************************************)
(* LtcInput.h: the LTC decoder                                             *)
(***************************************************************************)
\* kHysteresisThreshold 0.05 with the default input gain 1.0, in hundredths
kHysteresisThreshold == 5
\* bitPeriodEstimate is kept in thousandths of a sample
BpeScale == 1000
\* LTC_SYNC_WORD 0xBFFC as shiftRegHigh bits 0..15
LTC_SYNC_WORD == <<0, 0, 1, 1, 1, 1, 1, 1, 1, 1, 1, 1, 1, 1, 0, 1>>

\* resetDecoder plus the defaults of the atomics; shiftReg[1..64] is shiftRegLow
\* bit 0..63 and shiftReg[65..80] is shiftRegHigh bit 0..15
LtcInputReset ==
    [signalHigh |-> FALSE,
     samplesSinceEdge |-> 0,
     halfBitPending |-> FALSE,
     firstEdgeAfterReset |-> TRUE,
     shiftReg |-> [k \in 1..80 |-> 0],
     samplesSinceLastSync |-> 0,
     consecutiveGoodFrames |-> 0,
     bitPeriodEstimate |-> (currentSampleRate * BpeScale) \div 2160,
     packedTimecode |-> <<0, 0, 0, 0>>,
     detectedFps |-> "FPS_25",
     lastFrameTime |-> 0]

\* (d >> lo) & (2^n - 1) on shiftRegLow
RegField(reg, lo, n) ==
    LET RECURSIVE val(_)
        val(k) == IF k = n THEN 0 ELSE reg[lo + k + 1] * (2 ^ k) + val(k + 1)
    IN val(0)

\* the rate classification of onSyncWordDetected:
\* measuredFps = currentSampleRate / samplesSinceLastSync
DetectedRate(samples, dropFrame) ==
    IF currentSampleRate * 2 < 49 * samples THEN "FPS_24"
    ELSE IF currentSampleRate < 27 * samples THEN "FPS_25"
    ELSE IF dropFrame THEN "FPS_2997"
    ELSE "FPS_30"

\* onSyncWordDetected storing the classified rate from the first timed frame on
onSyncWordDetectedEager(r) ==
    LET d == r.d
        reg == d.shiftReg
        dropFrame == RegField(reg, 10, 1) # 0
    IN [d |-> [d EXCEPT !.consecutiveGoodFrames = @ + 1,
                         !.detectedFps = DetectedRate(d.samplesSinceLastSync, dropFrame),
                         !.samplesSinceLastSync = 0],
        pub |-> r.pub,
        stored |-> Append(r.stored, DetectedRate(d.samplesSinceLastSync, dropFrame)),
        t |-> r.t]

\* onSyncWordDetected; r.d is the decoder, r.pub the timecodes published so far,
\* r.stored the rates stored into detectedFps so far, r.t the millisecond counter
onSyncWordDetected(r) ==
    LET d == r.d
        reg == d.shiftReg
        frames == RegField(reg, 8, 2) * 10 + RegField(reg, 0, 4)
        seconds == RegField(reg, 24, 3) * 10 + RegField(reg, 16, 4)
        minutes == RegField(reg, 40, 3) * 10 + RegField(reg, 32, 4)
        hours == RegField(reg, 56, 2) * 10 + RegField(reg, 48, 4)
        dropFrame == RegField(reg, 10, 1) # 0
        timed == d.samplesSinceLastSync > 0
                     /\ d.samplesSinceLastSync < currentSampleRate * 2
        good == IF timed THEN d.consecutiveGoodFrames + 1 ELSE 1
    IN IF hours > 23 \/ minutes > 59 \/ seconds > 59 \/ frames > 29
       THEN [r EXCEPT !.d.consecutiveGoodFrames = 0, !.d.samplesSinceLastSync = 0]
       ELSE [d |-> [d EXCEPT !.consecutiveGoodFrames = good,
                             !.detectedFps =
                                 IF timed /\ good >= 3
                                 THEN DetectedRate(d.samplesSinceLastSync, dropFrame)
                                 ELSE d.detectedFps,
                             !.samplesSinceLastSync = 0,
                             !.packedTimecode = packTimecode(hours, minutes, seconds, frames),
                             !.lastFrameTime = r.t],
             pub |-> Append(r.pub, Tc(hours, minutes, seconds, frames)),
             stored |-> IF timed /\ good >= 3
                        THEN Append(r.stored, DetectedRate(d.samplesSinceLastSync, dropFrame))
                        ELSE r.stored,
             t |-> r.t]

pushBit(r, bit) ==
    LET reg == Append(Tail(r.d.shiftReg), bit % 2)
        r1 == [r EXCEPT !.d.shiftReg = reg]
    IN IF SubSeq(reg, 65, 80) = LTC_SYNC_WORD THEN onSyncWordDetected(r1) ELSE r1

\* bitPeriodEstimate * 0.95 + measured * 0.05
Ewma(bpe, measured) == (bpe * 95 + measured * BpeScale * 5) \div 100

onEdgeDetected(r, intervalSamples) ==
    LET d == r.d
        bpe == d.bitPeriodEstimate
        interval == intervalSamples * BpeScale
    IN IF d.firstEdgeAfterReset
       THEN [r EXCEPT !.d.firstEdgeAfterReset = FALSE]
       ELSE IF interval * 5 < bpe \/ interval * 10 > bpe * 18
       THEN [r EXCEPT !.d.halfBitPending = FALSE]
       ELSE IF interval * 4 < bpe * 3
       THEN IF d.halfBitPending
            THEN LET r1 == pushBit(r, 1)
                 IN [r1 EXCEPT !.d.halfBitPending = FALSE,
                               !.d.bitPeriodEstimate = Ewma(bpe, intervalSamples * 2)]
            ELSE [r EXCEPT !.d.halfBitPending = TRUE]
       ELSE LET r1 == pushBit([r EXCEPT !.d.halfBitPending = FALSE], 0)
            IN [r1 EXCEPT !.d.bitPeriodEstimate = Ewma(bpe, intervalSamples)]

\* one iteration of the decode loop of LtcInput::audioDeviceIOCallbackWithContext
DecSample(r, sample) ==
    LET d == r.d
        since == d.samplesSinceEdge + 1
        edge == IF d.signalHigh THEN sample < -kHysteresisThreshold
                ELSE sample > kHysteresisThreshold
        r1 == [r EXCEPT !.d.samplesSinceEdge = since,
                        !.d.samplesSinceLastSync = d.samplesSinceLastSync + 1,
                        !.d.signalHigh = IF edge THEN ~d.signalHigh ELSE d.signalHigh]
    IN IF edge
       THEN [onEdgeDetected(r1, since) EXCEPT !.d.samplesSinceEdge = 0]
       ELSE r1

\* the decode loop over data[lo..hi], evaluated by halves
RECURSIVE DecLoop(_, _, _, _)
DecLoop(r, data, lo, hi) ==
    IF lo > hi THEN r
    ELSE IF lo = hi THEN DecSample(r, data[lo])
    ELSE LET mid == (lo + hi) \div 2
             half == DecLoop(r, data, lo, mid)
         IN IF half.d.signalHigh \in BOOLEAN
            THEN DecLoop(half, data, mid + 1, hi)
            ELSE half

(***************************************************************************)
(* LtcOutput wired to LtcInput: the output device's samples are the input  *)
(* device's samples, block by block                                        *)
(***************************************************************************)
LtcRates == {"FPS_24", "FPS_25", "FPS_2997", "FPS_30"}

\* start timecodes: an ordinary one, the last frames of a drop-frame minute and
\* the last frames of the day
LtcStartTcs(fps) ==
    {Tc(1, 2, 3, 4), Tc(0, 0, 59, frameRateToInt(fps) - 2),
     Tc(23, 59, 59, frameRateToInt(fps) - 2)}

LtcInit ==
    /\ \E fps \in LtcRates : \E tc \in LtcStartTcs(fps) :
           ltcOut = LtcOutputReset(fps, packTimecode(tc.hours, tc.minutes,
                                                     tc.seconds, tc.frames))
    /\ ltcIn = LtcInputReset
    /\ ltcWire = <<>>
    /\ ltcEmitted = <<>>
    /\ ltcPublished = <<>>

\* the peak the sample loop leaves in peakLevel: the largest |sample|
PeakOf(out) ==
    LET mags == {IF out[k] < 0 THEN -out[k] ELSE out[k] : k \in 1..Len(out)}
    IN IF mags = {} THEN 0 ELSE CHOOSE m \in mags : \A x \in mags : x <= m

\* LtcOutput::audioDeviceIOCallbackWithContext for one buffer
LtcOutputCallback ==
    /\ ltcWire = <<>>
    /\ Len(ltcEmitted) < LtcMaxFrames
    /\ IF ltcOut.paused
       THEN /\ ltcWire' = [k \in 1..LtcBufferSize |-> 0]
            /\ UNCHANGED <<ltcOut, ltcEmitted>>
       ELSE LET r == EncLoop([e |-> ltcOut, out |-> <<>>, packed |-> <<>>], LtcBufferSize)
            IN /\ ltcOut' = [r.e EXCEPT !.peakLevel = PeakOf(r.out)]
               /\ ltcWire' = r.out
               /\ ltcEmitted' = ltcEmitted \o r.packed
    /\ UNCHANGED <<ltcIn, ltcPublished>>
    /\ UNCHANGED notLtc

\* LtcInput::audioDeviceIOCallbackWithContext (decode part) for the same buffer
LtcInputCallback ==
    /\ ltcWire # <<>>
    /\ LET r == DecLoop([d |-> ltcIn, pub |-> <<>>, stored |-> <<>>, t |-> now], ltcWire, 1, Len(ltcWire))
       IN /\ ltcIn' = r.d
          /\ ltcPublished' = ltcPublished \o r.pub
    /\ ltcWire' = <<>>
    /\ UNCHANGED <<ltcOut, ltcEmitted>>
    /\ UNCHANGED notLtc

\* LtcOutput::setTimecode from the engine tick: the source has moved on one frame.
\* The source runs at the encoder's rate, so it is never ahead of the encoder by
\* more than a frame; the tick may be late.
LtcSetTimecode ==
    /\ ltcOut.encoderSeeded
    /\ LET p == unpackTimecode(ltcOut.packedPendingTc)
           n == incrementFrame(p, ltcOut.pendingFps)
       IN /\ p = ltcOut.encoderTc \/ n = ltcOut.encoderTc
          /\ ltcOut' = [ltcOut EXCEPT !.packedPendingTc =
                            packTimecode(n.hours, n.minutes, n.seconds, n.frames)]
    /\ UNCHANGED <<ltcIn, ltcWire, ltcEmitted, ltcPublished>>
    /\ UNCHANGED notLtc

LtcNext ==
    \/ LtcOutputCallback
    \/ LtcInputCallback
    \/ LtcSetTimecode

\* the frames packed so far form a run of consecutive timecodes
LtcConsecutiveRun ==
    \A k \in 1..(Len(ltcEmitted) - 1) :
        ltcEmitted[k + 1] = incrementFrame(ltcEmitted[k], ltcOut.pendingFps)

\* C2: when LtcOutput has sent a run of three or more consecutive frames and
\* LtcInput has consumed every sample of them, LtcInput has published exactly the
\* timecodes that were encoded, frame by frame (the last entry of ltcEmitted is
\* the frame still being sent).
C2_RoundTrip ==
    (Len(ltcEmitted) >= 4 /\ ltcWire = <<>> /\ LtcConsecutiveRun)
        => ltcPublished = SubSeq(ltcEmitted, 1, Len(ltcEmitted) - 1)

\* C22: every bit-cell boundary of the waveform LtcOutput generates carries
\* a level transition, the boundary between bit 79 of one frame and bit 0 of
\* the next included: no bit cell begins at the level the cell before it
\* ended on
C22_CellBoundaries == ltcOut.flatBoundaries = 0

\* within a frame the 1->0 half-cell end always inverts the level, and the
\* 0->1 half-cell end inverts it exactly for a 1 bit: after n complete frames
\* the only flat boundaries are the n - 1 frame boundaries between them and
\* the one into the frame being sent
C22_FlatAtFrameStartOnly ==
    Len(ltcEmitted) >= 1 => ltcOut.flatBoundaries = Len(ltcEmitted) - 1

(***************************************************************************)
(* MtcOutput.h: the MTC quarter-frame transmitter                          *)
(***************************************************************************)
\* ---- bounds of the MTC model ----
MtcMaxMs == 100           \* length of a run, in ms
MtcMaxOps == 2            \* UI operations (start, stop, pause, rate) in a run
MtcCadenceMs == 2000      \* length of the 1 ms cadence run, in ms
UiTickMs == 16            \* the message thread is observed every UiTickMs

\* getMillisecondCounterHiRes() is a double of milliseconds; one millisecond is
\* MsUnit clock units, which makes every quarter-frame interval a whole number
MsUnit == 480

fpsToRateCode(fps) ==
    CASE fps = "FPS_2398" -> 0
      [] fps = "FPS_24"   -> 0
      [] fps = "FPS_25"   -> 1
      [] fps = "FPS_2997" -> 2
      [] fps = "FPS_30"   -> 3
      [] OTHER            -> 1

\* qfInterval = 1000.0 / (frameRateToDouble(fps) * 4.0)
QfIntervalPerFrame(fps) == (1000 * MsUnit * FpsDen(fps)) \div FpsNum(fps)
QfInterval(fps) == (1000 * MsUnit * FpsDen(fps)) \div (FpsNum(fps) * 4)

\* the members of a constructed MtcOutput; open is midiOutput != nullptr,
\* timerOn is the HighResolutionTimer running
MtcOutputNew ==
    [open |-> FALSE, isRunning |-> FALSE, paused |-> FALSE, timerOn |-> FALSE,
     currentQFIndex |-> 0, currentFps |-> "FPS_25",
     pendingTimecode |-> Tc(0, 0, 0, 0), cycleTimecode |-> Tc(0, 0, 0, 0),
     lastQfSendTime |-> 0]

\* updateTimerRate at time t
updateTimerRate(o, t) == [o EXCEPT !.lastQfSendTime = t, !.timerOn = TRUE]

MtcOutputStop(o) ==
    [o EXCEPT !.timerOn = FALSE, !.open = FALSE, !.isRunning = FALSE, !.paused = FALSE]

\* start(deviceIndex) at time t; opened is whether openDevice returned a device
MtcOutputStart(o, t, opened) ==
    IF opened
    THEN updateTimerRate([MtcOutputStop(o) EXCEPT !.open = TRUE, !.isRunning = TRUE,
                                                  !.paused = FALSE,
                                                  !.currentQFIndex = 0], t)
    ELSE MtcOutputStop(o)

MtcOutputSetFrameRate(o, fps, t) ==
    IF o.currentFps = fps THEN o
    ELSE LET o1 == [o EXCEPT !.currentFps = fps]
         IN IF o1.isRunning /\ ~o1.paused THEN updateTimerRate(o1, t) ELSE o1

\* sendFullFrame with the rate bits of the hours byte left at 0
sendFullFrameNoRate(o) ==
    IF ~o.open THEN <<>>
    ELSE <<[type |-> "sysex",
            data |-> <<127, 127, 1, 1, o.pendingTimecode.hours % 32,
                       o.pendingTimecode.minutes % ByteMod,
                       o.pendingTimecode.seconds % ByteMod,
                       o.pendingTimecode.frames % ByteMod>>,
            of |-> [tc |-> o.pendingTimecode, fps |-> o.currentFps]]>>

\* sendFullFrame: the SysEx payload between F0 and F7, or nothing
sendFullFrame(o) ==
    LET tc == o.pendingTimecode
        fps == o.currentFps
    IN IF ~o.open THEN <<>>
       ELSE IF tc.hours > 23 \/ tc.minutes > 59 \/ tc.seconds > 59
                  \/ tc.frames >= frameRateToInt(fps) THEN <<>>
       ELSE <<[type |-> "sysex",
               data |-> <<127, 127, 1, 1,
                          ((tc.hours % 32) + fpsToRateCode(fps) * 32) % ByteMod,
                          tc.minutes % ByteMod, tc.seconds % ByteMod,
                          tc.frames % ByteMod>>,
               of |-> [tc |-> tc, fps |-> fps]]>>

\* a setPaused that resumes where the cycle was interrupted
MtcOutputSetPausedKeepsCursor(o, shouldPause, t) ==
    IF o.paused = shouldPause THEN [o |-> o, msgs |-> <<>>]
    ELSE IF shouldPause
    THEN [o |-> [o EXCEPT !.paused = TRUE, !.timerOn = FALSE], msgs |-> <<>>]
    ELSE IF o.isRunning
    THEN [o |-> updateTimerRate([o EXCEPT !.paused = FALSE], t),
          msgs |-> sendFullFrame(o)]
    ELSE [o |-> [o EXCEPT !.paused = FALSE], msgs |-> <<>>]

\* setPaused(shouldPause) at time t: the handler afterwards and the messages sent
MtcOutputSetPaused(o, shouldPause, t) ==
    IF o.paused = shouldPause THEN [o |-> o, msgs |-> <<>>]
    ELSE IF shouldPause
    THEN [o |-> [o EXCEPT !.paused = TRUE, !.timerOn = FALSE], msgs |-> <<>>]
    ELSE IF o.isRunning
    THEN LET o1 == [o EXCEPT !.timerOn = FALSE, !.currentQFIndex = 0, !.paused = FALSE]
         IN [o |-> updateTimerRate(o1, t), msgs |-> sendFullFrame(o1)]
    ELSE [o |-> [o EXCEPT !.paused = FALSE], msgs |-> <<>>]

\* a quarter-frame taken from pendingTimecode
sendQuarterFramePending(o, index, fps) ==
    [type |-> "qf",
     data |-> (index * 16 + (CASE index = 0 -> o.pendingTimecode.frames % 16
                               [] index = 1 -> (o.pendingTimecode.frames \div 16) % 2
                               [] index = 2 -> o.pendingTimecode.seconds % 16
                               [] index = 3 -> (o.pendingTimecode.seconds \div 16) % 4
                               [] index = 4 -> o.pendingTimecode.minutes % 16
                               [] index = 5 -> (o.pendingTimecode.minutes \div 16) % 4
                               [] index = 6 -> o.pendingTimecode.hours % 16
                               [] OTHER -> ((o.pendingTimecode.hours \div 16) % 2)
                                               + fpsToRateCode(fps) * 2)) % ByteMod,
     of |-> [tc |-> o.pendingTimecode, fps |-> fps]]

\* sendQuarterFrame(index, fps): the 0xF1 message; of is the timecode it describes
sendQuarterFrame(o, index, fps) ==
    LET c == o.cycleTimecode
        value == CASE index = 0 -> c.frames % 16
                   [] index = 1 -> (c.frames \div 16) % 2
                   [] index = 2 -> c.seconds % 16
                   [] index = 3 -> (c.seconds \div 16) % 4
                   [] index = 4 -> c.minutes % 16
                   [] index = 5 -> (c.minutes \div 16) % 4
                   [] index = 6 -> c.hours % 16
                   [] OTHER     -> ((c.hours \div 16) % 2) + fpsToRateCode(fps) * 2
    IN [type |-> "qf",
        data |-> (index * 16 + (value % 16)) % ByteMod,
        of |-> [tc |-> c, fps |-> fps]]

\* lastSend += qfInterval
QfAdvanceToNow(lastSend, qfInterval, t) == t
QfAdvance(lastSend, qfInterval, t) == lastSend + qfInterval

\* the while loop of hiResTimerCallback at time t
RECURSIVE QfLoop(_, _, _, _)
QfLoop(r, t, qfInterval, fps) ==
    IF (t - r.lastSend) >= qfInterval /\ r.sent < 2
    THEN LET qfIdx == r.o.currentQFIndex
             o1 == IF qfIdx = 0
                   THEN [r.o EXCEPT !.cycleTimecode = r.o.pendingTimecode]
                   ELSE r.o
         IN QfLoop([o |-> [o1 EXCEPT !.currentQFIndex =
                                         IF qfIdx + 1 >= 8 THEN 0 ELSE qfIdx + 1],
                    lastSend |-> QfAdvance(r.lastSend, qfInterval, t),
                    sent |-> r.sent + 1,
                    msgs |-> Append(r.msgs, sendQuarterFrame(o1, qfIdx, fps))],
                   t, qfInterval, fps)
    ELSE r

\* hiResTimerCallback at time t
hiResTimerCallback(o, t) ==
    IF ~o.open \/ o.paused
    THEN [o |-> o, msgs |-> <<>>, sent |-> 0]
    ELSE LET fps == o.currentFps
             r == QfLoop([o |-> o, lastSend |-> o.lastQfSendTime, sent |-> 0,
                          msgs |-> <<>>], t, QfInterval(fps), fps)
         IN [o |-> [r.o EXCEPT !.lastQfSendTime =
                                   IF (t - r.lastSend) > 50 * MsUnit THEN t
                                   ELSE r.lastSend],
             msgs |-> r.msgs,
             sent |-> r.sent]

(***************************************************************************)
(* MtcInput.h: the MTC receiver                                            *)
(***************************************************************************)
MtcInputNew ==
    [isRunning |-> FALSE,
     mtcData |-> [k \in 0..7 |-> 0],
     synced |-> FALSE,
     lastSyncTimecode |-> Tc(0, 0, 0, 0),
     syncTimeMs |-> 0,
     detectedFps |-> "FPS_25",
     lastQfReceiveTime |-> 0]

\* resetState
MtcInputResetState(i) ==
    [i EXCEPT !.mtcData = [k \in 0..7 |-> 0], !.synced = FALSE, !.syncTimeMs = 0,
              !.lastSyncTimecode = Tc(0, 0, 0, 0), !.lastQfReceiveTime = 0]

\* start(deviceIndex) with the device opening
MtcInputStart(i) == MtcInputResetState([i EXCEPT !.isRunning = TRUE])

MtcInputStop(i) == [i EXCEPT !.isRunning = FALSE]

updateDetectedFps(prev, rateCode) ==
    CASE rateCode = 0 -> "FPS_24"
      [] rateCode = 1 -> "FPS_25"
      [] rateCode = 2 -> "FPS_2997"
      [] rateCode = 3 -> "FPS_30"
      [] OTHER        -> prev

\* reconstructAndSync at time t
reconstructAndSync(i, t) ==
    LET d == i.mtcData
        frames == d[0] + d[1] * 16
        seconds == d[2] + d[3] * 16
        minutes == d[4] + d[5] * 16
        hours == d[6] + (d[7] % 2) * 16
        rateCode == (d[7] \div 2) % 4
        fps == updateDetectedFps(i.detectedFps, rateCode)
        maxFrames == frameRateToInt(fps)
        totalFrames == hours * 3600 * maxFrames + minutes * 60 * maxFrames
                           + seconds * maxFrames + frames + 2
    IN [i EXCEPT !.detectedFps = fps,
                 !.lastSyncTimecode = Tc((totalFrames \div (maxFrames * 3600)) % 24,
                                         (totalFrames \div (maxFrames * 60)) % 60,
                                         (totalFrames \div maxFrames) % 60,
                                         totalFrames % maxFrames),
                 !.syncTimeMs = t,
                 !.synced = TRUE]

\* handleIncomingMidiMessage at time t
handleIncomingMidiMessage(i, msg, t) ==
    IF msg.type = "qf"
    THEN LET index == (msg.data \div 16) % 8
             value == msg.data % 16
             i1 == [i EXCEPT !.lastQfReceiveTime = t, !.mtcData[index] = value]
         IN IF index = 7 THEN reconstructAndSync(i1, t) ELSE i1
    ELSE LET x == msg.data
         IN IF Len(x) >= 8 /\ x[1] = 127 /\ x[2] = 127 /\ x[3] = 1 /\ x[4] = 1
            THEN [i EXCEPT !.lastQfReceiveTime = t,
                           !.detectedFps = updateDetectedFps(i.detectedFps,
                                                             (x[5] \div 32) % 4),
                           !.lastSyncTimecode = Tc(x[5] % 32, x[6], x[7], x[8]),
                           !.syncTimeMs = t,
                           !.synced = TRUE]
            ELSE i

(***************************************************************************)
(* MtcOutput, the cable and MtcInput together                              *)
(***************************************************************************)
\* timecodes the engine routes to the output at a rate
MtcSourceTcs(fps) ==
    {Tc(1, 2, 3, 4), Tc(0, 0, 59, frameRateToInt(fps) - 2),
     Tc(23, 59, 59, frameRateToInt(fps) - 1)}

\* delays after which the 1 ms timer fires: on time, late, after a stall, after
\* a long stall
MtcTimerDelays == {MsUnit, 2 * MsUnit, 25 * MsUnit, 75 * MsUnit}

\* the delays of a timer thread that is never stalled
MtcTimerJitter == {MsUnit, 2 * MsUnit}

\* MainComponent runs the engines from a 60 Hz timer (startTimerHz(60) is a
\* 16 ms period); the message thread's calls are placed at its ticks
UiTurn == now % (UiTickMs * MsUnit) = 0

MtcCbNone == [before |-> 0, at |-> 0, fps |-> "FPS_25", sent |-> 0, after |-> 0]
MtcTxNone == [count |-> 0, next |-> 0, ok |-> TRUE, ops |-> 0]

\* history of the cadence: the indices sent follow each other cyclically
RECURSIVE TxNote(_, _)
TxNote(tx, msgs) ==
    IF msgs = <<>> THEN tx
    ELSE LET idx == (Head(msgs).data \div 16) % 8
         IN TxNote([tx EXCEPT !.count = tx.count + 1,
                              !.ok = tx.ok /\ idx = tx.next,
                              !.next = (idx + 1) % 8],
                   Tail(msgs))

\* history of the receiver: the quarter-frames handled in order since index 0
RxNote(rx, msg) ==
    IF msg.type # "qf" THEN <<>>
    ELSE LET idx == (msg.data \div 16) % 8
         IN IF idx = 0 THEN <<msg.of>>
            ELSE IF Len(rx) = idx THEN Append(rx, msg.of)
            ELSE <<>>

\* the timer fires delay after the previous event and runs hiResTimerCallback
TimerFires(delay, limitMs) ==
    /\ mtcOut.timerOn
    /\ midiWire = <<>>
    /\ now + delay <= limitMs * MsUnit
    /\ now' = now + delay
    /\ LET r == hiResTimerCallback(mtcOut, now + delay)
       IN /\ mtcOut' = r.o
          /\ midiWire' = r.msgs
          /\ mtcCb' = [before |-> mtcOut.lastQfSendTime, at |-> now + delay,
                       fps |-> mtcOut.currentFps, sent |-> r.sent,
                       after |-> r.o.lastQfSendTime]
          /\ mtcTx' = TxNote(mtcTx, r.msgs)
    /\ UNCHANGED <<mtcIn, mtcRx>>
    /\ UNCHANGED notMtc

MtcTimerCallback == \E delay \in MtcTimerJitter : TimerFires(delay, MtcMaxMs)

\* the timer thread may also be held up
MtcTimerStalled == \E delay \in MtcTimerDelays : TimerFires(delay, MtcMaxMs)

\* the timer of the cadence run: every callback is exactly 1 ms after the last
MtcTimerTick == TimerFires(MsUnit, MtcCadenceMs)

\* the MIDI driver delivers the oldest message; a stopped MtcInput has no callback
MidiDeliver ==
    /\ midiWire # <<>>
    /\ midiWire' = Tail(midiWire)
    /\ IF mtcIn.isRunning
       THEN /\ mtcIn' = handleIncomingMidiMessage(mtcIn, Head(midiWire), now)
            /\ mtcRx' = RxNote(mtcRx, Head(midiWire))
       ELSE UNCHANGED <<mtcIn, mtcRx>>
    /\ UNCHANGED <<now, mtcOut, mtcCb, mtcTx>>
    /\ UNCHANGED notMtc

\* routeTimecodeToOutputs: mtcOutput.setTimecode
MtcOutSetTimecode ==
    /\ mtcOut.isRunning
    /\ mtcTx.ops < MtcMaxOps
    /\ UiTurn
    /\ \E tc \in MtcSourceTcs(mtcOut.currentFps) :
         /\ tc # mtcOut.pendingTimecode
         /\ mtcOut' = [mtcOut EXCEPT !.pendingTimecode = tc]
    /\ mtcTx' = [mtcTx EXCEPT !.ops = mtcTx.ops + 1]
    /\ UNCHANGED <<now, mtcIn, midiWire, mtcCb, mtcRx>>
    /\ UNCHANGED notMtc

\* setFrameRate / setOutputFrameRate: mtcOutput.setFrameRate
MtcOutSetFrameRate ==
    /\ mtcTx.ops < MtcMaxOps
    /\ UiTurn
    /\ \E fps \in FrameRates :
         /\ fps # mtcOut.currentFps
         /\ mtcOut' = MtcOutputSetFrameRate(mtcOut, fps, now)
    /\ mtcTx' = [mtcTx EXCEPT !.ops = mtcTx.ops + 1]
    /\ UNCHANGED <<now, mtcIn, midiWire, mtcCb, mtcRx>>
    /\ UNCHANGED notMtc

\* routeTimecodeToOutputs: mtcOutput.setPaused
MtcOutSetPaused ==
    /\ mtcTx.ops < MtcMaxOps
    /\ UiTurn
    /\ mtcOut.isRunning
    /\ LET r == MtcOutputSetPaused(mtcOut, ~mtcOut.paused, now)
       IN /\ mtcOut' = r.o
          /\ midiWire' = midiWire \o r.msgs
          /\ mtcTx' = IF mtcOut.paused
                      THEN [MtcTxNone EXCEPT !.ops = mtcTx.ops + 1]
                      ELSE [mtcTx EXCEPT !.ops = mtcTx.ops + 1]
    /\ UNCHANGED <<now, mtcIn, mtcCb, mtcRx>>
    /\ UNCHANGED notMtc

\* stopMtcOutput
MtcOutStop ==
    /\ mtcTx.ops < MtcMaxOps
    /\ UiTurn
    /\ mtcOut.isRunning
    /\ mtcOut' = MtcOutputStop(mtcOut)
    /\ mtcTx' = [mtcTx EXCEPT !.ops = mtcTx.ops + 1]
    /\ UNCHANGED <<now, mtcIn, midiWire, mtcCb, mtcRx>>
    /\ UNCHANGED notMtc

\* startMtcOutput: start, then setFrameRate(getEffectiveOutputFps())
MtcOutStart ==
    /\ mtcTx.ops < MtcMaxOps
    /\ UiTurn
    /\ \E opened \in BOOLEAN : \E fps \in FrameRates :
         mtcOut' = IF opened
                   THEN MtcOutputSetFrameRate(MtcOutputStart(mtcOut, now, TRUE), fps, now)
                   ELSE MtcOutputStart(mtcOut, now, FALSE)
    /\ mtcTx' = [MtcTxNone EXCEPT !.ops = mtcTx.ops + 1]
    /\ UNCHANGED <<now, mtcIn, midiWire, mtcCb, mtcRx>>
    /\ UNCHANGED notMtc

MtcNext ==
    \/ MtcTimerCallback
    \/ MidiDeliver
    \/ MtcOutSetTimecode
    \/ MtcOutSetPaused
    \/ MtcOutStop
    \/ MtcOutStart

MtcSchedNext ==
    \/ MtcTimerStalled
    \/ MidiDeliver
    \/ MtcOutSetFrameRate
    \/ MtcOutSetPaused

MtcCadenceNext ==
    \/ MtcTimerTick
    \/ MidiDeliver

\* a run begins with MtcOutput started at time 0 at some rate with a routed
\* timecode, and MtcInput listening on the other end of the cable
MtcInit ==
    /\ now = 0
    /\ \E fps \in FrameRates : \E tc \in MtcSourceTcs(fps) :
         mtcOut = [MtcOutputSetFrameRate(MtcOutputStart(MtcOutputNew, 0, TRUE), fps, 0)
                       EXCEPT !.pendingTimecode = tc]
    /\ mtcIn = MtcInputStart(MtcInputNew)
    /\ midiWire = <<>>
    /\ mtcCb = MtcCbNone
    /\ mtcTx = MtcTxNone
    /\ mtcRx = <<>>

\* a scheduler run: MtcOutput started at time 0 at some rate, nobody listening
MtcSchedInit ==
    /\ now = 0
    /\ \E fps \in FrameRates :
         mtcOut = [MtcOutputSetFrameRate(MtcOutputStart(MtcOutputNew, 0, TRUE), fps, 0)
                       EXCEPT !.pendingTimecode = Tc(1, 2, 3, 4)]
    /\ mtcIn = MtcInputNew
    /\ midiWire = <<>>
    /\ mtcCb = MtcCbNone
    /\ mtcTx = MtcTxNone
    /\ mtcRx = <<>>

\* phases of the 1 ms timer against the start of the cadence, in clock units
MtcTimerPhases == {0, 120, 240, 360}

\* the cadence run: 25 fps, started at time 0, the first callback 1 ms after phase
MtcCadenceInit ==
    /\ now \in MtcTimerPhases
    /\ mtcOut = [MtcOutputStart(MtcOutputNew, 0, TRUE)
                     EXCEPT !.pendingTimecode = Tc(1, 2, 3, 4)]
    /\ mtcIn = MtcInputNew
    /\ midiWire = <<>>
    /\ mtcCb = MtcCbNone
    /\ mtcTx = MtcTxNone
    /\ mtcRx = <<>>

\* a constructed, idle MTC pair for the specifications that do not run it
MtcStateQuiet ==
    /\ mtcOut = MtcOutputNew
    /\ mtcIn = MtcInputNew
    /\ midiWire = <<>>
    /\ mtcCb = MtcCbNone
    /\ mtcTx = MtcTxNone
    /\ mtcRx = <<>>

MtcQuiet == now = 0 /\ MtcStateQuiet

\* a label that exists at the rate: fields in range, and at 29.97 drop-frame not
\* one of the two frame numbers dropped at the start of a minute
ValidTc(tc, fps) ==
    /\ tc.hours \in 0..23 /\ tc.minutes \in 0..59 /\ tc.seconds \in 0..59
    /\ tc.frames \in 0..(frameRateToInt(fps) - 1)
    /\ ~(fps = "FPS_2997" /\ tc.frames < 2 /\ tc.seconds = 0 /\ (tc.minutes % 10) # 0)

\* MtcInput has handled, in order, the eight quarter-frames of one cycle
MtcCycleHandled ==
    /\ Len(mtcRx) = 8
    /\ \A k \in 1..8 : mtcRx[k] = mtcRx[1]

\* C3: for the rates 24, 25, 29.97 and 30 and a timecode tc valid at the rate, once
\* MtcInput has handled in order the eight quarter-frames MtcOutput sent for one
\* cycle of tc, it is synced to tc advanced by two frames at that rate (wrapping
\* at 24 hours, skipping the dropped labels at 29.97).
C3_QfRoundTrip ==
    (/\ MtcCycleHandled
     /\ mtcRx[1].fps \in {"FPS_24", "FPS_25", "FPS_2997", "FPS_30"}
     /\ ValidTc(mtcRx[1].tc, mtcRx[1].fps))
        => /\ mtcIn.synced
           /\ mtcIn.lastSyncTimecode =
                  incrementFrame(incrementFrame(mtcRx[1].tc, mtcRx[1].fps), mtcRx[1].fps)

\* C5: in every hiResTimerCallback at most two quarter-frames are sent; the
\* callback leaves last_send at its old value plus the ideal interval
\* 1000 / (fps * 4) ms for each quarter-frame sent, or else at now, and at now only
\* when the arrears left after the sends exceed 50 ms.
C5_TimerCallback ==
    LET ideal == mtcCb.before
                     + mtcCb.sent * ((1000 * MsUnit * FpsDen(mtcCb.fps))
                                         \div (FpsNum(mtcCb.fps) * 4))
    IN /\ mtcCb.sent <= 2
       /\ \/ mtcCb.after = ideal
          \/ (mtcCb.after = mtcCb.at /\ mtcCb.at - ideal > 50 * MsUnit)

\* a callback after a long stall: two catch-up sends, then the reset to now
C5_Witness ==
    /\ mtcCb.sent = 2
    /\ mtcCb.after = mtcCb.at
    /\ mtcCb.at - mtcCb.before > 50 * MsUnit

\* C6: with the timer firing every 1 ms and no pause or rate change, MtcOutput at
\* 25 fps has sent one quarter-frame per 10 ms of callbacks, 200 of them after
\* 2000 ms, and the indices sent run 0,1,...,7,0,1,... with none skipped or repeated.
C6_Cadence ==
    /\ mtcTx.ok
    /\ mtcTx.count = (now \div MsUnit) \div 10
    /\ (now \div MsUnit = 2000) => mtcTx.count = 200

\* the end of the 2000 ms: 200 quarter-frames, 25 whole cycles
C6_Witness ==
    /\ now \div MsUnit = 2000
    /\ mtcTx.count = 200
    /\ mtcTx.next = 0
    /\ mtcOut.currentFps = "FPS_25"

(***************************************************************************)
(* ArtnetOutput.h: the ArtTimeCode transmitter                             *)
(***************************************************************************)
\* ---- bounds of the Art-Net model ----
ArtMaxMs == 200           \* length of a run, in ms
ArtMaxOps == 2            \* UI operations in a run

\* the members of a constructed ArtnetOutput; socketOpen is socket != nullptr,
\* timerMs the period of the juce::Timer (0: stopped), timerDue its next firing
ArtnetOutputNew ==
    [isRunning |-> FALSE, outputEnabled |-> TRUE, paused |-> FALSE,
     socketOpen |-> FALSE, timecodeToSend |-> Tc(0, 0, 0, 0),
     currentFps |-> "FPS_30", timerMs |-> 0, timerDue |-> 0]

\* updateTimerRate at time t: intervalMs = jmax(1, (int)(1000.0 / fps))
ArtnetUpdateTimerRate(o, t) ==
    LET q == (1000 * FpsDen(o.currentFps)) \div FpsNum(o.currentFps)
        intervalMs == IF q > 1 THEN q ELSE 1
    IN [o EXCEPT !.timerMs = intervalMs, !.timerDue = t + intervalMs * MsUnit]

ArtnetOutputStop(o) ==
    [o EXCEPT !.timerMs = 0, !.isRunning = FALSE, !.paused = FALSE, !.socketOpen = FALSE]

\* start at time t; bound is whether one of the bindToPort calls succeeded
ArtnetOutputStart(o, t, bound) ==
    IF bound
    THEN ArtnetUpdateTimerRate([ArtnetOutputStop(o) EXCEPT !.socketOpen = TRUE,
                                                           !.isRunning = TRUE,
                                                           !.paused = FALSE], t)
    ELSE ArtnetOutputStop(o)

ArtnetOutputSetFrameRate(o, fps, t) ==
    IF o.currentFps = fps THEN o
    ELSE LET o1 == [o EXCEPT !.currentFps = fps]
         IN IF o1.isRunning /\ ~o1.paused THEN ArtnetUpdateTimerRate(o1, t) ELSE o1

ArtnetOutputSetPaused(o, shouldPause, t) ==
    IF o.paused = shouldPause THEN o
    ELSE IF shouldPause THEN [o EXCEPT !.paused = TRUE, !.timerMs = 0]
    ELSE IF o.isRunning THEN ArtnetUpdateTimerRate([o EXCEPT !.paused = FALSE], t)
    ELSE [o EXCEPT !.paused = FALSE]

\* the switch of sendArtTimeCode: rateCode stays 0 when no case matches
ArtRateCode(fps) ==
    CASE fps = "FPS_24"   -> 0
      [] fps = "FPS_25"   -> 1
      [] fps = "FPS_2997" -> 2
      [] fps = "FPS_30"   -> 3
      [] OTHER            -> 0

\* sendArtTimeCode: packet[0..18] is the sequence element 1..19
sendArtTimeCode(o) ==
    <<65, 114, 116, 45, 78, 101, 116, 0,
      0, 151,
      0, 0,
      0, 0,
      o.timecodeToSend.frames % ByteMod, o.timecodeToSend.seconds % ByteMod,
      o.timecodeToSend.minutes % ByteMod, o.timecodeToSend.hours % ByteMod,
      ArtRateCode(o.currentFps) % ByteMod>>

\* timerCallback: the datagrams it writes
ArtnetTimerCallbackSends(o) ==
    IF ~o.isRunning \/ ~o.outputEnabled \/ o.paused \/ ~o.socketOpen
    THEN <<>>
    ELSE <<sendArtTimeCode(o)>>

(***************************************************************************)
(* ArtnetInput.h: the ArtTimeCode receiver                                 *)
(***************************************************************************)
ArtnetInputNew ==
    [isRunning |-> FALSE, lastPacketTime |-> 0,
     packedTimecode |-> <<0, 0, 0, 0>>, detectedFps |-> "FPS_25"]

\* parseArtNetPacket without its checks of signature, opcode, version and ranges
parseArtNetPacketUnchecked(i, data, t) ==
    [i EXCEPT !.lastPacketTime = t,
              !.detectedFps = updateDetectedFps(i.detectedFps, data[19] % 4),
              !.packedTimecode = packTimecode(data[18], data[17], data[16], data[15])]

\* parseArtNetPacket at time t; data[0..] is the sequence element 1..
parseArtNetPacket(i, data, t) ==
    IF Len(data) < 19 THEN i
    ELSE IF SubSeq(data, 1, 8) # <<65, 114, 116, 45, 78, 101, 116, 0>> THEN i
    ELSE IF data[9] + data[10] * 256 # 38656 THEN i
    ELSE IF data[11] * 256 + data[12] < 14 THEN i
    ELSE IF data[18] > 23 \/ data[17] > 59 \/ data[16] > 59 \/ data[15] > 29 THEN i
    ELSE [i EXCEPT !.lastPacketTime = t,
                   !.detectedFps = updateDetectedFps(i.detectedFps, data[19] % 4),
                   !.packedTimecode = packTimecode(data[18], data[17], data[16], data[15])]

(***************************************************************************)
(* ArtnetOutput, the network and ArtnetInput together                      *)
(***************************************************************************)
\* timecodes the engine routes to the output at a rate
ArtSourceTcs(fps) ==
    {Tc(10, 20, 30, 7), Tc(0, 0, 0, 0), Tc(23, 59, 59, frameRateToInt(fps) - 1)}

ArtSentNone == [packets |-> <<>>, ops |-> 0]

\* the juce::Timer fires when due and runs timerCallback
ArtnetTimerCallback ==
    /\ artOut.timerMs > 0
    /\ artWire = <<>>
    /\ artOut.timerDue >= now
    /\ artOut.timerDue <= ArtMaxMs * MsUnit
    /\ now' = artOut.timerDue
    /\ artOut' = [artOut EXCEPT !.timerDue = artOut.timerDue + artOut.timerMs * MsUnit]
    /\ LET out == ArtnetTimerCallbackSends(artOut)
       IN /\ artWire' = out
          /\ artSent' = [artSent EXCEPT !.packets =
                            IF out = <<>> THEN artSent.packets
                            ELSE <<[bytes |-> out[1], tc |-> artOut.timecodeToSend,
                                    fps |-> artOut.currentFps]>>]
    /\ UNCHANGED artIn
    /\ UNCHANGED notArt

\* ArtnetInput::run reads the next datagram; a stopped ArtnetInput has no socket
ArtnetDeliver ==
    /\ artWire # <<>>
    /\ artWire' = Tail(artWire)
    /\ artIn' = IF artIn.isRunning /\ Len(Head(artWire)) >= 19
                THEN parseArtNetPacket(artIn, Head(artWire), now)
                ELSE artIn
    /\ UNCHANGED <<now, artOut, artSent>>
    /\ UNCHANGED notArt

\* routeTimecodeToOutputs: artnetOutput.setTimecode
ArtOutSetTimecode ==
    /\ artOut.isRunning
    /\ artSent.ops < ArtMaxOps
    /\ UiTurn
    /\ \E tc \in ArtSourceTcs(artOut.currentFps) :
         /\ tc # artOut.timecodeToSend
         /\ artOut' = [artOut EXCEPT !.timecodeToSend = tc]
    /\ artSent' = [artSent EXCEPT !.ops = artSent.ops + 1]
    /\ UNCHANGED <<now, artIn, artWire>>
    /\ UNCHANGED notArt

\* setFrameRate / setOutputFrameRate: artnetOutput.setFrameRate
ArtOutSetFrameRate ==
    /\ artSent.ops < ArtMaxOps
    /\ UiTurn
    /\ \E fps \in FrameRates :
         /\ fps # artOut.currentFps
         /\ artOut' = ArtnetOutputSetFrameRate(artOut, fps, now)
    /\ artSent' = [artSent EXCEPT !.ops = artSent.ops + 1]
    /\ UNCHANGED <<now, artIn, artWire>>
    /\ UNCHANGED notArt

\* routeTimecodeToOutputs: artnetOutput.setPaused
ArtOutSetPaused ==
    /\ artSent.ops < ArtMaxOps
    /\ UiTurn
    /\ artOut.isRunning
    /\ artOut' = ArtnetOutputSetPaused(artOut, ~artOut.paused, now)
    /\ artSent' = [artSent EXCEPT !.ops = artSent.ops + 1]
    /\ UNCHANGED <<now, artIn, artWire>>
    /\ UNCHANGED notArt

ArtNext ==
    \/ ArtnetTimerCallback
    \/ ArtnetDeliver
    \/ ArtOutSetTimecode
    \/ ArtOutSetFrameRate
    \/ ArtOutSetPaused

\* a run begins with ArtnetOutput started at time 0 at some rate with a routed
\* timecode, and ArtnetInput listening
ArtInit ==
    /\ \E fps \in FrameRates : \E tc \in ArtSourceTcs(fps) :
         artOut = [ArtnetOutputSetFrameRate(ArtnetOutputStart(ArtnetOutputNew, 0, TRUE),
                                            fps, 0)
                       EXCEPT !.timecodeToSend = tc]
    /\ artIn = [ArtnetInputNew EXCEPT !.isRunning = TRUE]
    /\ artWire = <<>>
    /\ artSent = ArtSentNone

\* a constructed, idle Art-Net pair for the specifications that do not run it
ArtQuiet ==
    /\ artOut = ArtnetOutputNew
    /\ artIn = ArtnetInputNew
    /\ artWire = <<>>
    /\ artSent = ArtSentNone

\* C4: every datagram ArtnetOutput sends is 19 bytes: "Art-Net" and a zero byte,
\* the opcode 00 97, the protocol version 00 0E, two zero bytes, then frames,
\* seconds, minutes, hours of the timecode sent, then the rate code (0 = 24,
\* 1 = 25, 2 = 29.97, 3 = 30) with its upper six bits zero.
C4_PacketLayout ==
    \A k \in 1..Len(artSent.packets) :
        LET p == artSent.packets[k]
        IN /\ Len(p.bytes) = 19
           /\ SubSeq(p.bytes, 1, 8) = <<65, 114, 116, 45, 78, 101, 116, 0>>
           /\ SubSeq(p.bytes, 9, 10) = <<0, 151>>
           /\ SubSeq(p.bytes, 11, 12) = <<0, 14>>
           /\ SubSeq(p.bytes, 13, 14) = <<0, 0>>
           /\ SubSeq(p.bytes, 15, 18) = <<p.tc.frames, p.tc.seconds, p.tc.minutes, p.tc.hours>>
           /\ p.bytes[19] < 4
           /\ p.fps = "FPS_24" => p.bytes[19] = 0
           /\ p.fps = "FPS_25" => p.bytes[19] = 1
           /\ p.fps = "FPS_2997" => p.bytes[19] = 2
           /\ p.fps = "FPS_30" => p.bytes[19] = 3

(***************************************************************************)
(* TimecodeCore.h: source timeout, offsets, wall clock, rate conversion    *)
(***************************************************************************)
kSourceTimeoutMs == 150

\* the duration of one frame in clock units: 1000.0 / frameRateToDouble(fps);
\* the doubles of the conversions below are exact fractions here
FrameDur(fps) == (1000 * MsUnit * FpsDen(fps)) \div FpsNum(fps)

\* a count of frames as hours, minutes, seconds and frames
TcOfTotal(total, maxFrames) ==
    Tc((total \div (maxFrames * 3600)) % 24, (total \div (maxFrames * 60)) % 60,
       (total \div maxFrames) % 60, total % maxFrames)

\* the labels 29.97 drop-frame skips are moved to frame 2
DropFrameFix(tc, fps) ==
    IF fps = "FPS_2997" /\ tc.frames < 2 /\ tc.seconds = 0 /\ (tc.minutes % 10) # 0
    THEN [tc EXCEPT !.frames = 2]
    ELSE tc

offsetTimecode(tc, offsetFrames, fps) ==
    IF offsetFrames = 0 THEN tc
    ELSE LET maxFrames == frameRateToInt(fps)
             total == tc.hours * 3600 * maxFrames + tc.minutes * 60 * maxFrames
                          + tc.seconds * maxFrames + tc.frames + offsetFrames
             dayFrames == 24 * 3600 * maxFrames
         IN DropFrameFix(TcOfTotal(total % dayFrames, maxFrames), fps)

\* wallClockToTimecode that numbers the frames of 29.97 without skipping labels
wallClockToTimecodeNoDrop(ms, fps) ==
    LET totalFrames == ms \div FrameDur(fps)
    IN TcOfTotal(totalFrames, frameRateToInt(fps))

\* wallClockToTimecode(msSinceMidnight, fps); ms is in clock units
wallClockToTimecode(ms, fps) ==
    IF fps = "FPS_2997"
    THEN LET totalFrames == ms \div FrameDur("FPS_2997")
             tenMinBlocks == totalFrames \div 17982
             remainder == totalFrames % 17982
             minutesSinceBlock == IF remainder < 1800 THEN 0
                                  ELSE 1 + (remainder - 1800) \div 1798
             frameNumber == totalFrames + 18 * tenMinBlocks + 2 * minutesSinceBlock
         IN Tc((frameNumber \div 108000) % 24, (frameNumber \div 1800) % 60,
               (frameNumber \div 30) % 60, frameNumber % 30)
    ELSE LET totalSeconds == ms \div (1000 * MsUnit)
             fractional == ms % (1000 * MsUnit)
         IN Tc((totalSeconds \div 3600) % 24, (totalSeconds \div 60) % 60,
               totalSeconds % 60,
               (fractional \div FrameDur(fps)) % frameRateToInt(fps))

\* timecodeToMs(tc, fps), in clock units
timecodeToMs(tc, fps) ==
    IF fps = "FPS_2997"
    THEN LET totalMinutes == tc.hours * 60 + tc.minutes
             tenMinBlocks == totalMinutes \div 10
             frameNumber == tc.hours * 108000 + tc.minutes * 1800
                                + tc.seconds * 30 + tc.frames
             droppedFrames == 2 * (totalMinutes - tenMinBlocks)
         IN (frameNumber - droppedFrames) * FrameDur("FPS_2997")
    ELSE (tc.hours * 3600 + tc.minutes * 60 + tc.seconds) * 1000 * MsUnit
             + tc.frames * FrameDur(fps)

convertTimecodeRate(tc, fromFps, toFps) ==
    IF fromFps = toFps THEN tc
    ELSE wallClockToTimecode(timecodeToMs(tc, fromFps), toFps)

(***************************************************************************)
(* The protocol handlers as TimecodeEngine uses them                       *)
(***************************************************************************)
\* MtcInput::isReceiving at time t
MtcInputIsReceivingSynced(i, t) == i.synced
MtcInputIsReceiving(i, t) ==
    i.synced /\ (t - i.lastQfReceiveTime) < kSourceTimeoutMs * MsUnit

\* MtcInput::getCurrentTimecode at time t
MtcInputGetCurrentTimecode(i, t) ==
    IF ~i.synced THEN Tc(0, 0, 0, 0)
    ELSE IF ~MtcInputIsReceiving(i, t) THEN i.lastSyncTimecode
    ELSE LET elapsed == t - i.syncTimeMs
             fps == i.detectedFps
             maxFrames == frameRateToInt(fps)
             extraFrames == elapsed \div FrameDur(fps)
             syncTc == i.lastSyncTimecode
             syncTotal == syncTc.hours * 3600 * maxFrames + syncTc.minutes * 60 * maxFrames
                              + syncTc.seconds * maxFrames + syncTc.frames
             dayFrames == 24 * 3600 * maxFrames
         IN IF elapsed < 0 THEN syncTc
            ELSE DropFrameFix(TcOfTotal((syncTotal + extraFrames) % dayFrames, maxFrames),
                              fps)

\* ArtnetInput::start / stop; bound is whether a bindToPort call succeeded
ArtnetInputStop(i) == [i EXCEPT !.isRunning = FALSE]
ArtnetInputStart(i, bound) == [i EXCEPT !.isRunning = bound]

ArtnetInputIsReceiving(i, t) ==
    i.lastPacketTime # 0 /\ (t - i.lastPacketTime) < kSourceTimeoutMs * MsUnit

\* the members of a constructed LtcInput that the message thread reads;
\* currentTypeName is what getCurrentTypeName() returns to MainComponent
LtcInputNew ==
    [isRunning |-> FALSE, currentDeviceName |-> "", currentTypeName |-> "",
     selectedChannel |-> 0, passthruChannel |-> -1,
     packedTimecode |-> <<0, 0, 0, 0>>, detectedFps |-> "FPS_25", lastFrameTime |-> 0]

LtcInputStop(i) == [i EXCEPT !.isRunning = FALSE]

\* start; numCh is the number of active input channels of the opened device,
\* 0 when the device does not open
LtcInputStart(i, typeName, devName, ltcChannel, thruChannel, numCh) ==
    LET i1 == [LtcInputStop(i) EXCEPT !.selectedChannel = ltcChannel,
                                      !.passthruChannel = thruChannel,
                                      !.currentDeviceName = devName,
                                      !.currentTypeName = typeName]
        selCh == IF ltcChannel >= numCh THEN 0 ELSE ltcChannel
        thruCh1 == IF thruChannel >= numCh THEN -1 ELSE thruChannel
        thruCh == IF thruCh1 >= 0 /\ thruCh1 = selCh THEN -1 ELSE thruCh1
    IN IF numCh = 0 THEN i1
       ELSE [i1 EXCEPT !.selectedChannel = selCh, !.passthruChannel = thruCh,
                       !.isRunning = TRUE]

LtcInputIsReceiving(i, t) == (t - i.lastFrameTime) < kSourceTimeoutMs * MsUnit

hasPassthruChannel(i) == i.passthruChannel >= 0

\* what onSyncWordDetected publishes for a decoded frame at time t
LtcInputPublish(i, tc, fps, t) ==
    [i EXCEPT !.packedTimecode = packTimecode(tc.hours, tc.minutes, tc.seconds, tc.frames),
              !.detectedFps = fps, !.lastFrameTime = t]

\* the members of a constructed LtcOutput that the message thread writes
LtcOutputNew ==
    [isRunning |-> FALSE, currentDeviceName |-> "", currentTypeName |-> "",
     packedPendingTc |-> <<0, 0, 0, 0>>, pendingFps |-> "FPS_25", paused |-> FALSE]

LtcOutputStop(o) == [o EXCEPT !.isRunning = FALSE]

\* start; opened is whether setAudioDeviceSetup opened the device
LtcOutputStart(o, typeName, devName, opened) ==
    [LtcOutputStop(o) EXCEPT !.currentDeviceName = devName,
                             !.currentTypeName = typeName,
                             !.isRunning = opened]

LtcOutputSetTimecodeDropped(o, tc) == o
LtcOutputSetTimecode(o, tc) ==
    [o EXCEPT !.packedPendingTc = packTimecode(tc.hours, tc.minutes, tc.seconds, tc.frames)]

LtcOutputSetFrameRate(o, fps) == [o EXCEPT !.pendingFps = fps]

LtcOutputSetPaused(o, p) == [o EXCEPT !.paused = p]

(***************************************************************************)
(* AudioThru.h                                                             *)
(***************************************************************************)
\* sourceInput is whether the atomic LtcInput pointer is non-null
AudioThruNew ==
    [isRunning |-> FALSE, currentDeviceName |-> "", currentTypeName |-> "",
     sourceInput |-> FALSE]

\* stop: nothing unless isRunningFlag is set
AudioThruStop(a) ==
    IF a.isRunning THEN [a EXCEPT !.sourceInput = FALSE, !.isRunning = FALSE] ELSE a

\* start with a source (the engine passes &ltcInput); opened as for LtcOutput:
\* the pointer is stored before the device is opened
AudioThruStart(a, typeName, devName, opened) ==
    [AudioThruStop(a) EXCEPT !.sourceInput = TRUE,
                             !.currentDeviceName = devName,
                             !.currentTypeName = typeName,
                             !.isRunning = opened]

(***************************************************************************)
(* TimecodeEngine.h: one routing pipeline                                  *)
(***************************************************************************)
kPrimaryEngineIndex == 0
kMaxEngines == 8

InputSources == {"SystemTime", "MTC", "ArtNet", "LTC"}

\* audioThru is the unique_ptr: <<>> when null, <<a>> when it owns a
TimecodeEngineNew(index, name) ==
    [engineIndex |-> index, engineName |-> name,
     activeInput |-> "SystemTime", currentFps |-> "FPS_30",
     currentTimecode |-> Tc(0, 0, 0, 0), sourceActive |-> TRUE,
     userOverrodeLtcFps |-> FALSE,
     fpsConvertEnabled |-> FALSE, outputFps |-> "FPS_30",
     outputTimecode |-> Tc(0, 0, 0, 0),
     outputMtcEnabled |-> FALSE, outputArtnetEnabled |-> FALSE,
     outputLtcEnabled |-> FALSE, outputThruEnabled |-> FALSE,
     mtcOutputOffset |-> 0, artnetOutputOffset |-> 0, ltcOutputOffset |-> 0,
     mtcInput |-> MtcInputNew, mtcOutput |-> MtcOutputNew,
     artnetInput |-> ArtnetInputNew, artnetOutput |-> ArtnetOutputNew,
     ltcInput |-> LtcInputNew, ltcOutput |-> LtcOutputNew,
     audioThru |-> IF index = kPrimaryEngineIndex THEN <<AudioThruNew>> ELSE <<>>,
     inputStatusText |-> "SYSTEM CLOCK", mtcOutStatusText |-> "",
     artnetOutStatusText |-> "", ltcOutStatusText |-> "", thruOutStatusText |-> ""]

isPrimary(e) == e.engineIndex = kPrimaryEngineIndex

getEffectiveOutputFps(e) == IF e.fpsConvertEnabled THEN e.outputFps ELSE e.currentFps

\* the three setFrameRate calls that push the effective output rate
PushOutputRate(e, t) ==
    LET outRate == getEffectiveOutputFps(e)
    IN [e EXCEPT !.mtcOutput = MtcOutputSetFrameRate(@, outRate, t),
                 !.artnetOutput = ArtnetOutputSetFrameRate(@, outRate, t),
                 !.ltcOutput = LtcOutputSetFrameRate(@, outRate)]

setFrameRate(e, fps, t) == PushOutputRate([e EXCEPT !.currentFps = fps], t)

setOutputFrameRate(e, fps, t) == PushOutputRate([e EXCEPT !.outputFps = fps], t)

setFpsConvertEnabled(e, enabled, t) ==
    LET e1 == [e EXCEPT !.fpsConvertEnabled = enabled]
    IN IF enabled THEN e1
       ELSE setOutputFrameRate(e1, e1.currentFps, t)

stopMtcInput(e) == [e EXCEPT !.mtcInput = MtcInputStop(@)]

stopArtnetInput(e) == [e EXCEPT !.artnetInput = ArtnetInputStop(@)]

stopThruOutput(e) ==
    [e EXCEPT !.audioThru = IF @ = <<>> THEN @ ELSE <<AudioThruStop(@[1])>>,
              !.thruOutStatusText = ""]

\* stopLtcInput: AudioThru first, then the input it reads from
stopLtcInputOnly(e) == [e EXCEPT !.ltcInput = LtcInputStop(@)]
stopLtcInput(e) == [stopThruOutput(e) EXCEPT !.ltcInput = LtcInputStop(@)]

stopMtcOutput(e) == [e EXCEPT !.mtcOutput = MtcOutputStop(@), !.mtcOutStatusText = ""]

stopArtnetOutput(e) ==
    [e EXCEPT !.artnetOutput = ArtnetOutputStop(@), !.artnetOutStatusText = ""]

stopLtcOutputSkipped(e) == e
stopLtcOutput(e) == [e EXCEPT !.ltcOutput = LtcOutputStop(@), !.ltcOutStatusText = ""]

setInputSource(e, source) ==
    LET e1 == CASE e.activeInput = "MTC"    -> stopMtcInput(e)
                [] e.activeInput = "ArtNet" -> stopArtnetInput(e)
                [] e.activeInput = "LTC"    -> stopLtcInput(e)
                [] OTHER                    -> e
    IN [e1 EXCEPT !.userOverrodeLtcFps = FALSE, !.activeInput = source,
                  !.sourceActive = (source = "SystemTime")]

\* what a MIDI device selection comes to: no device, a device that does not
\* open, a device that opens
MidiOutcomes == {"none", "fail", "ok"}

startMtcInput(e, midi) ==
    LET e1 == stopMtcInput(e)
    IN IF midi = "ok"
       THEN [e1 EXCEPT !.mtcInput = MtcInputStart(@), !.inputStatusText = "RX"]
       ELSE [e1 EXCEPT !.inputStatusText = IF midi = "none"
                                           THEN "NO MIDI DEVICE AVAILABLE"
                                           ELSE "FAILED TO OPEN DEVICE"]

startArtnetInput(e, bound) ==
    LET e1 == stopArtnetInput(e)
    IN [e1 EXCEPT !.artnetInput = ArtnetInputStart(@, bound),
                  !.inputStatusText = IF bound THEN "RX ON" ELSE "FAILED TO BIND PORT 6454"]

startLtcInput(e, typeName, devName, ltcChannel, thruChannel, numCh) ==
    LET e1 == stopLtcInput(e)
        li == LtcInputStart(e1.ltcInput, typeName, devName, ltcChannel, thruChannel, numCh)
    IN IF devName = ""
       THEN [e1 EXCEPT !.inputStatusText = "NO AUDIO DEVICE AVAILABLE"]
       ELSE [e1 EXCEPT !.ltcInput = li,
                       !.inputStatusText = IF li.isRunning THEN "RX"
                                           ELSE "FAILED TO OPEN AUDIO DEVICE"]

startMtcOutput(e, midi, t) ==
    LET e1 == stopMtcOutput(e)
    IN IF midi = "ok"
       THEN [e1 EXCEPT !.mtcOutput = MtcOutputSetFrameRate(MtcOutputStart(@, t, TRUE),
                                                           getEffectiveOutputFps(e1), t),
                       !.mtcOutStatusText = "TX"]
       ELSE [e1 EXCEPT !.mtcOutStatusText = IF midi = "none" THEN "NO MIDI DEVICE"
                                            ELSE "FAILED TO OPEN"]

startArtnetOutput(e, bound, t) ==
    LET e1 == stopArtnetOutput(e)
    IN IF bound
       THEN [e1 EXCEPT !.artnetOutput =
                           ArtnetOutputSetFrameRate(ArtnetOutputStart(@, t, TRUE),
                                                    getEffectiveOutputFps(e1), t),
                       !.artnetOutStatusText = "TX"]
       ELSE [e1 EXCEPT !.artnetOutput = ArtnetOutputStart(@, t, FALSE),
                       !.artnetOutStatusText = "FAILED TO BIND"]

\* startLtcOutput steals the device from a running AudioThru
startLtcOutputKeepsThru(e, typeName, devName, opened) ==
    LET e1 == stopLtcOutput(e)
        lo == LtcOutputStart(e1.ltcOutput, typeName, devName, opened)
    IN IF devName = ""
       THEN [e1 EXCEPT !.ltcOutStatusText = "NO AUDIO DEVICE AVAILABLE"]
       ELSE IF lo.isRunning
       THEN [e1 EXCEPT !.ltcOutput = LtcOutputSetFrameRate(lo, getEffectiveOutputFps(e1)),
                       !.ltcOutStatusText = "TX"]
       ELSE [e1 EXCEPT !.ltcOutput = lo, !.ltcOutStatusText = "FAILED TO OPEN AUDIO DEVICE"]
startLtcOutput(e, typeName, devName, opened) ==
    LET e1 == stopLtcOutput(e)
        sameAsThru == /\ e1.audioThru # <<>>
                      /\ e1.audioThru[1].isRunning
                      /\ e1.audioThru[1].currentDeviceName = devName
                      /\ e1.audioThru[1].currentTypeName = typeName
        e2 == IF sameAsThru
              THEN [stopThruOutput(e1) EXCEPT
                        !.thruOutStatusText = "CONFLICT: same device as LTC OUT"]
              ELSE e1
        lo == LtcOutputStart(e2.ltcOutput, typeName, devName, opened)
    IN IF devName = ""
       THEN [e1 EXCEPT !.ltcOutStatusText = "NO AUDIO DEVICE AVAILABLE"]
       ELSE IF lo.isRunning
       THEN [e2 EXCEPT !.ltcOutput = LtcOutputSetFrameRate(lo, getEffectiveOutputFps(e2)),
                       !.ltcOutStatusText = "TX"]
       ELSE [e2 EXCEPT !.ltcOutput = lo, !.ltcOutStatusText = "FAILED TO OPEN AUDIO DEVICE"]

\* startThruOutput gives way to a running LTC output; the pass-through ring
\* it resets and synchronises is the one of the ring model
startThruOutput(e, typeName, devName, opened) ==
    LET e1 == stopThruOutput(e)
        sameAsLtc == /\ e1.outputLtcEnabled
                     /\ e1.ltcOutput.isRunning
                     /\ e1.ltcOutput.currentDeviceName = devName
                     /\ e1.ltcOutput.currentTypeName = typeName
        a == AudioThruStart(e1.audioThru[1], typeName, devName, opened)
    IN IF e1.audioThru = <<>> THEN e1
       ELSE IF ~e1.ltcInput.isRunning \/ ~hasPassthruChannel(e1.ltcInput)
       THEN [e1 EXCEPT !.thruOutStatusText = "WAITING FOR LTC INPUT"]
       ELSE IF devName = ""
       THEN [e1 EXCEPT !.thruOutStatusText = "NO AUDIO DEVICE"]
       ELSE IF sameAsLtc
       THEN [e1 EXCEPT !.thruOutStatusText = "CONFLICT: same device as LTC OUT"]
       ELSE [e1 EXCEPT !.audioThru = <<a>>,
                       !.thruOutStatusText = IF a.isRunning THEN "THRU"
                                             ELSE "FAILED TO OPEN"]

\* reindex after the engine list changed
reindexKeepsThru(e, newIndex) == [e EXCEPT !.engineIndex = newIndex]
reindex(e, newIndex) ==
    LET e1 == IF isPrimary(e) /\ newIndex # kPrimaryEngineIndex
              THEN [stopThruOutput(e) EXCEPT !.audioThru = <<>>,
                                             !.outputThruEnabled = FALSE]
              ELSE e
        e2 == [e1 EXCEPT !.engineIndex = newIndex]
    IN IF newIndex = kPrimaryEngineIndex /\ e2.audioThru = <<>>
       THEN [e2 EXCEPT !.audioThru = <<AudioThruNew>>]
       ELSE e2

\* routeTimecodeToOutputs at time t
routeTimecodeToOutputs(e, t) ==
    LET outRate == getEffectiveOutputFps(e)
        baseTc == IF e.fpsConvertEnabled
                  THEN convertTimecodeRate(e.currentTimecode, e.currentFps, outRate)
                  ELSE e.currentTimecode
        e1 == [e EXCEPT !.outputTimecode = baseTc]
        mtcOn == e1.outputMtcEnabled /\ e1.mtcOutput.isRunning
        artOn == e1.outputArtnetEnabled /\ e1.artnetOutput.isRunning
        ltcOn == e1.outputLtcEnabled /\ e1.ltcOutput.isRunning
    IN IF e1.sourceActive
       THEN [e1 EXCEPT
               !.mtcOutput =
                   IF mtcOn
                   THEN MtcOutputSetPaused(
                            [@ EXCEPT !.pendingTimecode =
                                 offsetTimecode(baseTc, e1.mtcOutputOffset, outRate)],
                            FALSE, t).o
                   ELSE @,
               !.artnetOutput =
                   IF artOn
                   THEN ArtnetOutputSetPaused(
                            [@ EXCEPT !.timecodeToSend =
                                 offsetTimecode(baseTc, e1.artnetOutputOffset, outRate)],
                            FALSE, t)
                   ELSE @,
               !.ltcOutput =
                   IF ltcOn
                   THEN LtcOutputSetPaused(
                            LtcOutputSetTimecode(
                                @, offsetTimecode(baseTc, e1.ltcOutputOffset, outRate)),
                            FALSE)
                   ELSE @]
       ELSE [e1 EXCEPT
               !.mtcOutput = IF mtcOn THEN MtcOutputSetPaused(@, TRUE, t).o ELSE @,
               !.artnetOutput = IF artOn THEN ArtnetOutputSetPaused(@, TRUE, t) ELSE @,
               !.ltcOutput = IF ltcOn THEN LtcOutputSetPaused(@, TRUE) ELSE @]

\* ambiguousOverride of tick: the user chose 23.976 or 29.97 and the decoder,
\* which cannot tell them from 24 and 30, reports the integer rate
AmbiguousOverrideNever(e, d) == FALSE
AmbiguousOverride(e, d) ==
    /\ e.userOverrodeLtcFps
    /\ \/ (e.currentFps = "FPS_2398" /\ d = "FPS_24")
       \/ (e.currentFps = "FPS_2997" /\ d = "FPS_30")

\* the input half of tick at time t; wall is the wall clock since midnight
PollInput(e, t, wall) ==
    CASE e.activeInput = "SystemTime" ->
           [e EXCEPT !.currentTimecode = wallClockToTimecode(wall, e.currentFps),
                     !.sourceActive = TRUE, !.inputStatusText = "SYSTEM CLOCK"]
      [] e.activeInput = "MTC" ->
           IF e.mtcInput.isRunning
           THEN LET rx == MtcInputIsReceiving(e.mtcInput, t)
                    d == e.mtcInput.detectedFps
                    e1 == [e EXCEPT !.currentTimecode =
                                        MtcInputGetCurrentTimecode(e.mtcInput, t)]
                    e2 == IF rx /\ d # e1.currentFps THEN setFrameRate(e1, d, t) ELSE e1
                IN [e2 EXCEPT !.inputStatusText = IF rx THEN "RX" ELSE "PAUSED",
                              !.sourceActive = rx]
           ELSE [e EXCEPT !.sourceActive = FALSE,
                          !.inputStatusText = "WAITING FOR DEVICE..."]
      [] e.activeInput = "ArtNet" ->
           IF e.artnetInput.isRunning
           THEN LET rx == ArtnetInputIsReceiving(e.artnetInput, t)
                    d == e.artnetInput.detectedFps
                    e1 == [e EXCEPT !.currentTimecode =
                                        unpackTimecode(e.artnetInput.packedTimecode)]
                    e2 == IF rx /\ d # e1.currentFps THEN setFrameRate(e1, d, t) ELSE e1
                IN [e2 EXCEPT !.inputStatusText = IF rx THEN "RX" ELSE "PAUSED",
                              !.sourceActive = rx]
           ELSE [e EXCEPT !.sourceActive = FALSE, !.inputStatusText = "NOT LISTENING"]
      [] OTHER ->
           IF e.ltcInput.isRunning
           THEN LET rx == LtcInputIsReceiving(e.ltcInput, t)
                    d == e.ltcInput.detectedFps
                    e1 == [e EXCEPT !.currentTimecode =
                                        unpackTimecode(e.ltcInput.packedTimecode)]
                    ambiguousOverride == AmbiguousOverride(e1, d)
                    e2 == IF rx /\ d # e1.currentFps /\ ~ambiguousOverride
                          THEN setFrameRate(
                                   [e1 EXCEPT !.userOverrodeLtcFps =
                                        IF d # "FPS_24" /\ d # "FPS_30" THEN FALSE ELSE @],
                                   d, t)
                          ELSE e1
                IN [e2 EXCEPT !.inputStatusText = IF rx THEN "RX" ELSE "PAUSED",
                              !.sourceActive = rx]
           ELSE [e EXCEPT !.sourceActive = FALSE,
                          !.inputStatusText = "WAITING FOR DEVICE..."]

tick(e, t, wall) == routeTimecodeToOutputs(PollInput(e, t, wall), t)

(***************************************************************************)
(* MainComponent.cpp: the engine list and the handlers of its controls     *)
(***************************************************************************)
\* ---- bounds of the engine runs ----
EngMaxOps == 2            \* UI operations in a run of one engine
EngMaxTicks == 2          \* timer callbacks in a run of one engine
EngStartMs == 1000        \* millisecond counter when a run begins
EngWallMs == 3599900      \* wall clock since midnight, in ms, at counter 0
HostMaxOps == 4           \* UI operations in a run of the engine list
HostMaxEngines == 3       \* engines in a run of the engine list

\* the scanned audio devices (one driver type), and an empty selection
AudioDevices ==
    {[typeName |-> "ALSA", deviceName |-> "A"], [typeName |-> "ALSA", deviceName |-> "B"]}
FirstDevice == [typeName |-> "ALSA", deviceName |-> "A"]
NoDevice == [typeName |-> "", deviceName |-> ""]

\* the combo box entry a start uses: item 1 when nothing is selected
EntryOrFirst(sel) == IF sel.deviceName = "" THEN FirstDevice ELSE sel

\* what the platform and the combo boxes contribute to one UI operation; a
\* component is a single value when the operation does not read it
EnvSet(needMidi, needBound, needLtc, needThru, needIn) ==
    [midi : IF needMidi THEN MidiOutcomes ELSE {"ok"},
     bound : IF needBound THEN BOOLEAN ELSE {TRUE},
     ltcSel : IF needLtc THEN AudioDevices ELSE {FirstDevice},
     ltcOpened : IF needLtc THEN BOOLEAN ELSE {TRUE},
     thruSel : IF needThru THEN AudioDevices \cup {NoDevice} ELSE {NoDevice},
     thruOpened : IF needThru THEN BOOLEAN ELSE {TRUE},
     inSel : IF needIn THEN AudioDevices ELSE {FirstDevice},
     numCh : IF needIn THEN 0..2 ELSE {2}]

\* the handlers that have an audio device open, as <<engine name, handler>>
Holders(engines, isInput, dev) ==
    LET idx == 1..Len(engines)
    IN IF isInput
       THEN {<<engines[k].engineName, "LtcInput">> :
                k \in {j \in idx : /\ engines[j].ltcInput.isRunning
                                   /\ engines[j].ltcInput.currentDeviceName = dev.deviceName
                                   /\ engines[j].ltcInput.currentTypeName = dev.typeName}}
       ELSE {<<engines[k].engineName, "LtcOutput">> :
                k \in {j \in idx : /\ engines[j].ltcOutput.isRunning
                                   /\ engines[j].ltcOutput.currentDeviceName = dev.deviceName
                                   /\ engines[j].ltcOutput.currentTypeName = dev.typeName}}
            \cup
            {<<engines[k].engineName, "AudioThru">> :
                k \in {j \in idx : /\ engines[j].audioThru # <<>>
                                   /\ engines[j].audioThru[1].isRunning
                                   /\ engines[j].audioThru[1].currentDeviceName = dev.deviceName
                                   /\ engines[j].audioThru[1].currentTypeName = dev.typeName}}

\* getDeviceInUseMarker for an audio device: the text appended to its combo item
getDeviceInUseMarker(h, dev, isInput) ==
    LET cur == h.engines[h.selectedEngine + 1].engineName
        others == {x \in Holders(h.engines, isInput, dev) : x[1] # cur}
    IN IF dev.deviceName = "" THEN ""
       ELSE IF others # {} THEN " [ENGINE]"
       ELSE IF Holders(h.engines, isInput, dev) # {} THEN " *"
       ELSE ""

\* history: the audio side of an engine around a start call
AudioSnapshot(e) ==
    [ltcInRunning |-> e.ltcInput.isRunning, inputStatusText |-> e.inputStatusText,
     passthru |-> hasPassthruChannel(e.ltcInput),
     ltcOutEnabled |-> e.outputLtcEnabled,
     ltcOutRunning |-> e.ltcOutput.isRunning,
     ltcOutDevice |-> e.ltcOutput.currentDeviceName,
     ltcOutStatusText |-> e.ltcOutStatusText,
     thruRunning |-> e.audioThru # <<>> /\ e.audioThru[1].isRunning,
     thruDevice |-> IF e.audioThru = <<>> THEN "" ELSE e.audioThru[1].currentDeviceName,
     thruOutStatusText |-> e.thruOutStatusText]

CallNote(h, method, handler, isInput, e, e2, dev, opened) ==
    [method |-> method, engine |-> e.engineName, device |-> dev, opened |-> opened,
     heldBy |-> Holders(h.engines, isInput, dev) \ {<<e.engineName, handler>>},
     marker |-> getDeviceInUseMarker(h, dev, isInput),
     before |-> AudioSnapshot(e), after |-> AudioSnapshot(e2)]

\* eng.startLtcInput(...) on engines[k], noted
CallStartLtcInput(h, k, dev, thruCh, numCh) ==
    LET e == h.engines[k]
        e2 == startLtcInput(e, dev.typeName, dev.deviceName, 0, thruCh, numCh)
    IN [h EXCEPT !.engines[k] = e2,
                 !.calls = Append(@, CallNote(h, "startLtcInput", "LtcInput", TRUE,
                                              e, e2, dev, numCh > 0))]

CallStartLtcOutput(h, k, dev, opened) ==
    LET e == h.engines[k]
        e2 == startLtcOutput(e, dev.typeName, dev.deviceName, opened)
    IN [h EXCEPT !.engines[k] = e2,
                 !.calls = Append(@, CallNote(h, "startLtcOutput", "LtcOutput", FALSE,
                                              e, e2, dev, opened))]

CallStartThruOutput(h, k, dev, opened) ==
    LET e == h.engines[k]
        e2 == startThruOutput(e, dev.typeName, dev.deviceName, opened)
    IN [h EXCEPT !.engines[k] = e2,
                 !.calls = Append(@, CallNote(h, "startThruOutput", "AudioThru", FALSE,
                                              e, e2, dev, opened))]

startCurrentThruOutput(h, env) ==
    LET k == h.selectedEngine + 1
    IN IF ~isPrimary(h.engines[k]) THEN h
       ELSE CallStartThruOutput(h, k, EntryOrFirst(env.thruSel), env.thruOpened)

startCurrentLtcInput(h, env) ==
    LET k == h.selectedEngine + 1
        e == h.engines[k]
        thruCh == IF isPrimary(e) /\ e.outputThruEnabled THEN 1 ELSE -1
        h1 == CallStartLtcInput(h, k, EntryOrFirst(env.inSel), thruCh, env.numCh)
        e1 == h1.engines[k]
    IN IF e1.ltcInput.isRunning /\ isPrimary(e1) /\ e1.outputThruEnabled
       THEN startCurrentThruOutput(h1, env)
       ELSE h1

startCurrentLtcOutput(h, env) ==
    LET k == h.selectedEngine + 1
        entry == EntryOrFirst(env.ltcSel)
        h1 == CallStartLtcOutput([h EXCEPT !.engines[k] = stopLtcOutput(@)], k, entry,
                                 env.ltcOpened)
        e1 == h1.engines[k]
    IN IF /\ e1.ltcOutput.isRunning
          /\ isPrimary(e1) /\ e1.outputThruEnabled
          /\ e1.audioThru # <<>> /\ ~e1.audioThru[1].isRunning
          /\ env.thruSel.deviceName # ""
          /\ env.thruSel # entry
       THEN startCurrentThruOutput(h1, env)
       ELSE h1

updateCurrentOutputStates(h, env, t) ==
    LET k == h.selectedEngine + 1
        e0 == h.engines[k]
        h1 == IF e0.outputMtcEnabled /\ ~e0.mtcOutput.isRunning
              THEN [h EXCEPT !.engines[k] = startMtcOutput(@, env.midi, t)]
              ELSE IF ~e0.outputMtcEnabled /\ e0.mtcOutput.isRunning
              THEN [h EXCEPT !.engines[k] = stopMtcOutput(@)]
              ELSE h
        h2 == IF e0.outputArtnetEnabled /\ ~e0.artnetOutput.isRunning
              THEN [h1 EXCEPT !.engines[k] = startArtnetOutput(@, env.bound, t)]
              ELSE IF ~e0.outputArtnetEnabled /\ e0.artnetOutput.isRunning
              THEN [h1 EXCEPT !.engines[k] = stopArtnetOutput(@)]
              ELSE h1
        h3 == IF e0.outputLtcEnabled /\ ~e0.ltcOutput.isRunning
              THEN startCurrentLtcOutput(h2, env)
              ELSE IF ~e0.outputLtcEnabled /\ e0.ltcOutput.isRunning
              THEN [h2 EXCEPT !.engines[k] = stopLtcOutput(@)]
              ELSE h2
        e3 == h3.engines[k]
    IN IF ~isPrimary(e3) THEN h3
       ELSE IF e3.outputThruEnabled /\ e3.audioThru # <<>> /\ ~e3.audioThru[1].isRunning
       THEN IF e3.activeInput = "LTC" THEN startCurrentLtcInput(h3, env)
            ELSE startCurrentThruOutput(h3, env)
       ELSE IF ~e3.outputThruEnabled /\ e3.audioThru # <<>> /\ e3.audioThru[1].isRunning
       THEN [h3 EXCEPT !.engines[k] = stopThruOutput(@)]
       ELSE h3

\* the name addEngine gives: "ENGINE n" for the first free n from size + 1 on
RECURSIVE NewEngineName(_, _)
NewEngineName(engines, nameNum) ==
    IF \E k \in 1..Len(engines) : engines[k].engineName = nameNum
    THEN NewEngineName(engines, nameNum + 1)
    ELSE nameNum

addEngine(h) ==
    LET newIndex == Len(h.engines)
        newName == NewEngineName(h.engines, Len(h.engines) + 1)
    IN IF Len(h.engines) >= kMaxEngines THEN h
       ELSE [h EXCEPT !.engines = Append(@, TimecodeEngineNew(newIndex, newName)),
                      !.selectedEngine = newIndex]

\* the stop calls of removeEngine on the engine it deletes, in order; the
\* destructor of TimecodeEngine makes the same calls in the same order
ShutdownOrder ==
    <<"stopMtcOutput", "stopArtnetOutput", "stopLtcOutput", "stopThruOutput",
      "stopMtcInput", "stopArtnetInput", "stopLtcInput">>

StopCall(e, name) ==
    CASE name = "stopMtcOutput" -> stopMtcOutput(e)
      [] name = "stopArtnetOutput" -> stopArtnetOutput(e)
      [] name = "stopLtcOutput" -> stopLtcOutput(e)
      [] name = "stopThruOutput" -> stopThruOutput(e)
      [] name = "stopMtcInput" -> stopMtcInput(e)
      [] name = "stopArtnetInput" -> stopArtnetInput(e)
      [] OTHER -> stopLtcInput(e)

\* the engine before the first stop call and after each of the first n
RECURSIVE ShutdownTrace(_, _)
ShutdownTrace(e, n) ==
    IF n = 0 THEN <<e>>
    ELSE LET tr == ShutdownTrace(e, n - 1)
         IN Append(tr, StopCall(tr[Len(tr)], ShutdownOrder[n]))

\* a sequence without its element at position p
EraseAt(s, p) == [j \in 1..(Len(s) - 1) |-> IF j < p THEN s[j] ELSE s[j + 1]]

\* removeEngine(index); the settings it reads were flushed from the engines
removeEngine(h, index, env) ==
    LET victim == h.engines[index + 1]
        deletedHadThru == isPrimary(victim) /\ victim.outputThruEnabled
        trace == ShutdownTrace(victim, Len(ShutdownOrder))
        stopped == trace[Len(trace)]
        savedThruOutEnabled == [j \in 1..Len(h.engines) |-> h.engines[j].outputThruEnabled]
        erased == EraseAt(h.engines, index + 1)
        reindexed == [j \in 1..Len(erased) |-> reindex(erased[j], j - 1)]
        sel == IF index < h.selectedEngine THEN h.selectedEngine - 1
               ELSE IF h.selectedEngine >= Len(reindexed) THEN Len(reindexed) - 1
               ELSE h.selectedEngine
        h1 == [h EXCEPT !.engines = reindexed, !.selectedEngine = sel,
                        !.removed = <<[index |-> index, victim |-> stopped,
                                       before |-> h.engines, trace |-> trace]>>]
        newPrimary == reindexed[1]
        h2 == [h1 EXCEPT !.engines[1].outputThruEnabled = TRUE]
    IN IF Len(h.engines) <= 1 \/ index < 0 \/ index >= Len(h.engines) THEN h
       ELSE IF /\ deletedHadThru
               /\ newPrimary.activeInput = "LTC"
               /\ newPrimary.ltcInput.isRunning
               /\ EraseAt(savedThruOutEnabled, index + 1)[1]
       THEN IF sel = 0 THEN startCurrentThruOutput(h2, env)
            ELSE IF env.thruSel.deviceName # ""
            THEN CallStartThruOutput(h2, 1, env.thruSel, env.thruOpened)
            ELSE h2
       ELSE h1

selectEngine(h, index) ==
    IF index < 0 \/ index >= Len(h.engines) \/ index = h.selectedEngine THEN h
    ELSE [h EXCEPT !.selectedEngine = index]

(***************************************************************************)
(* The engine list at work: UI operations, the 60 Hz timer, the sources    *)
(***************************************************************************)
HostNew ==
    [engines |-> <<TimecodeEngineNew(0, 1)>>, selectedEngine |-> 0,
     op |-> "init", ops |-> 0, ticks |-> 0, fed |-> FALSE,
     calls |-> <<>>, removed |-> <<>>]

\* the state a UI operation starts from and the note of its end
UiBegin == [host EXCEPT !.calls = <<>>, !.removed = <<>>]
UiDone(h, name) == [h EXCEPT !.op = name, !.ops = @ + 1]

CurrentK == host.selectedEngine + 1
currentEngine == host.engines[CurrentK]

\* btnMtcIn, btnArtnetIn, btnSysTime, btnLtcIn
InputButton(src) ==
    LET e1 == setInputSource(currentEngine, src)
        h1 == [UiBegin EXCEPT !.engines[CurrentK] = e1]
    IN /\ currentEngine.activeInput # src
       /\ \E env \in EnvSet(src = "MTC", src = "ArtNet", FALSE,
                            src = "LTC" /\ isPrimary(e1) /\ e1.outputThruEnabled,
                            src = "LTC") :
            host' = UiDone(CASE src = "MTC" ->
                                  [h1 EXCEPT !.engines[CurrentK] =
                                       startMtcInput(@, env.midi)]
                             [] src = "ArtNet" ->
                                  [h1 EXCEPT !.engines[CurrentK] =
                                       startArtnetInput(@, env.bound)]
                             [] src = "LTC" -> startCurrentLtcInput(h1, env)
                             [] OTHER -> h1,
                           "inputButton")
       /\ UNCHANGED <<now, notHost>>

\* btnMtcOut, btnArtnetOut, btnLtcOut, btnThruOut (shown for the primary only)
OutputToggle(which) ==
    LET e1 == CASE which = "MTC" -> [currentEngine EXCEPT !.outputMtcEnabled = ~@]
                [] which = "ArtNet" -> [currentEngine EXCEPT !.outputArtnetEnabled = ~@]
                [] which = "LTC" -> [currentEngine EXCEPT !.outputLtcEnabled = ~@]
                [] OTHER -> [currentEngine EXCEPT !.outputThruEnabled = ~@]
        h1 == [UiBegin EXCEPT !.engines[CurrentK] = e1]
        needThru == isPrimary(e1) /\ e1.outputThruEnabled
        thruDown == e1.audioThru # <<>> /\ ~e1.audioThru[1].isRunning
    IN /\ which = "Thru" => isPrimary(currentEngine)
       /\ \E env \in EnvSet(e1.outputMtcEnabled /\ ~e1.mtcOutput.isRunning,
                            e1.outputArtnetEnabled /\ ~e1.artnetOutput.isRunning,
                            e1.outputLtcEnabled /\ ~e1.ltcOutput.isRunning,
                            needThru,
                            needThru /\ thruDown /\ e1.activeInput = "LTC") :
            host' = UiDone(updateCurrentOutputStates(h1, env, now), "outputToggle")
       /\ UNCHANGED <<now, notHost>>

\* btnFps2398 .. btnFps30
FpsButton(fps) ==
    LET e == currentEngine
        e1 == IF fps \in {"FPS_2398", "FPS_2997"}
              THEN [e EXCEPT !.userOverrodeLtcFps = IF e.activeInput = "LTC" THEN TRUE ELSE @]
              ELSE [e EXCEPT !.userOverrodeLtcFps = FALSE]
    IN /\ host' = UiDone([UiBegin EXCEPT !.engines[CurrentK] = setFrameRate(e1, fps, now)],
                         "fpsButton")
       /\ UNCHANGED <<now, notHost>>

\* btnFpsConvert
FpsConvertButton ==
    /\ host' = UiDone([UiBegin EXCEPT !.engines[CurrentK] =
                           setFpsConvertEnabled(@, ~@.fpsConvertEnabled, now)],
                      "fpsConvertButton")
    /\ UNCHANGED <<now, notHost>>

\* btnOutFps2398 .. btnOutFps30
OutFpsButton(fps) ==
    /\ host' = UiDone([UiBegin EXCEPT !.engines[CurrentK] = setOutputFrameRate(@, fps, now)],
                      "outFpsButton")
    /\ UNCHANGED <<now, notHost>>

\* sldMtcOffset, sldArtnetOffset, sldLtcOffset
OffsetSlider(which, frames) ==
    /\ host' = UiDone(CASE which = "MTC" ->
                             [UiBegin EXCEPT !.engines[CurrentK].mtcOutputOffset = frames]
                        [] which = "ArtNet" ->
                             [UiBegin EXCEPT !.engines[CurrentK].artnetOutputOffset = frames]
                        [] OTHER ->
                             [UiBegin EXCEPT !.engines[CurrentK].ltcOutputOffset = frames],
                      "offsetSlider")
    /\ UNCHANGED <<now, notHost>>

\* cmbAudioOutputDevice.onChange with a device chosen
AudioOutputDeviceChange ==
    /\ currentEngine.outputLtcEnabled
    /\ \E env \in EnvSet(FALSE, FALSE, TRUE,
                         isPrimary(currentEngine) /\ currentEngine.outputThruEnabled,
                         FALSE) :
         host' = UiDone(startCurrentLtcOutput(UiBegin, env), "audioOutputDevice")
    /\ UNCHANGED <<now, notHost>>

\* cmbThruOutputDevice.onChange
ThruOutputDeviceChange ==
    /\ currentEngine.outputThruEnabled
    /\ \E env \in EnvSet(FALSE, FALSE, FALSE, TRUE, FALSE) :
         host' = UiDone(startCurrentThruOutput(UiBegin, env), "thruOutputDevice")
    /\ UNCHANGED <<now, notHost>>

\* the "+" tab
AddEngine ==
    /\ Len(host.engines) < kMaxEngines
    /\ host' = UiDone(addEngine(UiBegin), "addEngine")
    /\ UNCHANGED <<now, notHost>>

\* the tab menu's remove
RemoveEngine(index) ==
    /\ Len(host.engines) > 1
    /\ index \in 0..(Len(host.engines) - 1)
    /\ \E env \in EnvSet(FALSE, FALSE, FALSE,
                         index = 0 /\ host.engines[1].outputThruEnabled, FALSE) :
         host' = UiDone(removeEngine(UiBegin, index, env), "removeEngine")
    /\ UNCHANGED <<now, notHost>>

\* a click on a tab
SelectEngine(index) ==
    /\ index \in 0..(Len(host.engines) - 1)
    /\ index # host.selectedEngine
    /\ host' = UiDone(selectEngine(UiBegin, index), "selectEngine")
    /\ UNCHANGED <<now, notHost>>

\* delays between timer callbacks, in periods of the 60 Hz timer
EngTimerDelays == {1, 10}

\* timerCallback: every engine ticks
HostTimerCallback ==
    \E delay \in EngTimerDelays :
      LET t == now + delay * UiTickMs * MsUnit
          wall == (EngWallMs + t \div MsUnit) * MsUnit
      IN /\ now' = t
         /\ host' = [host EXCEPT !.engines = [k \in 1..Len(host.engines) |->
                                                  tick(host.engines[k], t, wall)],
                                 !.op = "timerCallback", !.ticks = @ + 1,
                                 !.fed = FALSE, !.calls = <<>>, !.removed = <<>>]
         /\ UNCHANGED notHost

\* what the sources send
EngSourceFps == {"FPS_25", "FPS_2997"}

ArtTimeCodePacket(tc, rateCode) ==
    <<65, 114, 116, 45, 78, 101, 116, 0, 0, 151, 0, 14, 0, 0,
      tc.frames, tc.seconds, tc.minutes, tc.hours, rateCode>>

\* the source of the active input delivers a message to its running handler
InputFrame ==
    LET e == currentEngine
        Fed(e1) == host' = [host EXCEPT !.engines[CurrentK] = e1, !.op = "inputFrame",
                                        !.fed = TRUE, !.calls = <<>>, !.removed = <<>>]
    IN /\ ~host.fed
       /\ \/ /\ e.activeInput = "MTC" /\ e.mtcInput.isRunning
             /\ \/ \E fps \in EngSourceFps :
                     Fed([e EXCEPT !.mtcInput = handleIncomingMidiMessage(
                              @, [type |-> "sysex",
                                  data |-> <<127, 127, 1, 1, 1 + fpsToRateCode(fps) * 32,
                                             2, 3, 4>>], now)])
                \/ \E d \in {0, 114} :
                     Fed([e EXCEPT !.mtcInput = handleIncomingMidiMessage(
                              @, [type |-> "qf", data |-> d], now)])
          \/ /\ e.activeInput = "ArtNet" /\ e.artnetInput.isRunning
             /\ \E fps \in EngSourceFps :
                  Fed([e EXCEPT !.artnetInput = parseArtNetPacket(
                           @, ArtTimeCodePacket(Tc(1, 2, 3, 4), ArtRateCode(fps)), now)])
          \/ /\ e.activeInput = "LTC" /\ e.ltcInput.isRunning
             /\ \E fps \in EngSourceFps :
                  Fed([e EXCEPT !.ltcInput = LtcInputPublish(@, Tc(1, 2, 3, 4), fps, now)])
       /\ UNCHANGED <<now, notHost>>

(***************************************************************************)
(* One engine under the 60 Hz timer, its sources and its controls          *)
(***************************************************************************)
EngFpsChoices == {"FPS_25", "FPS_2997"}

EngInputButton == host.ops < EngMaxOps /\ \E src \in InputSources : InputButton(src)

EngOutputToggle ==
    host.ops < EngMaxOps /\ \E which \in {"MTC", "ArtNet", "LTC"} : OutputToggle(which)

EngFpsButton == host.ops < EngMaxOps /\ \E fps \in EngFpsChoices : FpsButton(fps)

EngFpsConvertButton == host.ops < EngMaxOps /\ FpsConvertButton

EngOutFpsButton == host.ops < EngMaxOps /\ \E fps \in EngFpsChoices : OutFpsButton(fps)

EngOffsetSlider ==
    host.ops < EngMaxOps /\ \E which \in {"MTC", "ArtNet", "LTC"} : OffsetSlider(which, -1)

EngTimerCallback == host.ticks < EngMaxTicks /\ HostTimerCallback

EngInputFrame == host.ticks < EngMaxTicks /\ InputFrame

EngineNext ==
    \/ EngInputButton
    \/ EngOutputToggle
    \/ EngFpsButton
    \/ EngFpsConvertButton
    \/ EngOutFpsButton
    \/ EngOffsetSlider
    \/ EngTimerCallback
    \/ EngInputFrame

\* the input of an engine is active at time t: SystemTime always; otherwise its
\* handler is running and accepted its last message less than 150 ms ago
InputActive(e, t) ==
    CASE e.activeInput = "SystemTime" -> TRUE
      [] e.activeInput = "MTC" ->
           /\ e.mtcInput.isRunning
           /\ e.mtcInput.synced
           /\ t - e.mtcInput.lastQfReceiveTime < kSourceTimeoutMs * MsUnit
      [] e.activeInput = "ArtNet" ->
           /\ e.artnetInput.isRunning
           /\ e.artnetInput.lastPacketTime # 0
           /\ t - e.artnetInput.lastPacketTime < kSourceTimeoutMs * MsUnit
      [] OTHER ->
           /\ e.ltcInput.isRunning
           /\ t - e.ltcInput.lastFrameTime < kSourceTimeoutMs * MsUnit

\* the timecode a tick routes: the input's, converted to the output rate when
\* conversion is on
RoutedBase(e) ==
    IF e.fpsConvertEnabled
    THEN convertTimecodeRate(e.currentTimecode, e.currentFps, getEffectiveOutputFps(e))
    ELSE e.currentTimecode

\* the three timecode outputs of an engine, as the claim looks at them
OutputStates(e) ==
    {[name |-> "MTC", enabled |-> e.outputMtcEnabled, running |-> e.mtcOutput.isRunning,
      paused |-> e.mtcOutput.paused, offset |-> e.mtcOutputOffset,
      pending |-> e.mtcOutput.pendingTimecode],
     [name |-> "ArtNet", enabled |-> e.outputArtnetEnabled,
      running |-> e.artnetOutput.isRunning, paused |-> e.artnetOutput.paused,
      offset |-> e.artnetOutputOffset, pending |-> e.artnetOutput.timecodeToSend],
     [name |-> "LTC", enabled |-> e.outputLtcEnabled, running |-> e.ltcOutput.isRunning,
      paused |-> e.ltcOutput.paused, offset |-> e.ltcOutputOffset,
      pending |-> unpackTimecode(e.ltcOutput.packedPendingTc)]}

\* after a timer callback every enabled output (running, when mustRun) holds the
\* routed timecode unpaused if the input is active and is paused if it is not
TickRouted(mustRun) ==
    host.op = "timerCallback" =>
        \A k \in 1..Len(host.engines) :
            LET e == host.engines[k]
            IN \A o \in OutputStates(e) :
                   (o.enabled /\ (mustRun => o.running)) =>
                       IF InputActive(e, now)
                       THEN /\ ~o.paused
                            /\ o.pending = offsetTimecode(RoutedBase(e), o.offset,
                                                          getEffectiveOutputFps(e))
                       ELSE o.paused

\* C7 as written: after every tick, with an inactive input every enabled output
\* is paused, and with an active input every enabled output holds the timecode
\* routed in that tick and is unpaused.
C7_EveryEnabledOutput == TickRouted(FALSE)

\* C7 amended: after every tick, every enabled output whose handler is running
\* is paused when the input is inactive, and holds the timecode routed in that
\* tick, unpaused, when the input is active; an enabled output whose start
\* failed is left untouched.
C7_EveryRunningOutput == TickRouted(TRUE)

\* the MTC source fell silent for more than 150 ms and the tick paused the
\* running MTC output
C7_Witness ==
    /\ host.op = "timerCallback"
    /\ \E k \in 1..Len(host.engines) :
         LET e == host.engines[k]
         IN /\ e.activeInput = "MTC"
            /\ e.mtcInput.isRunning
            /\ e.mtcInput.synced
            /\ ~InputActive(e, now)
            /\ e.outputMtcEnabled
            /\ e.mtcOutput.isRunning
            /\ e.mtcOutput.paused

\* the ends of the offset sliders (styleOffsetSlider: -30 .. 30 frames)
SliderEnds == {-30, 30}

\* the timecode an output of engine e holds for sending
HeldBy(e, name) ==
    CASE name = "MTC" -> e.mtcOutput.pendingTimecode
      [] name = "ArtNet" -> e.artnetOutput.timecodeToSend
      [] OTHER -> unpackTimecode(e.ltcOutput.packedPendingTc)

\* engine e with the offset slider of one output at d
WithOffset(e, name, d) ==
    CASE name = "MTC" -> [e EXCEPT !.mtcOutputOffset = d]
      [] name = "ArtNet" -> [e EXCEPT !.artnetOutputOffset = d]
      [] OTHER -> [e EXCEPT !.ltcOutputOffset = d]

\* after a timer callback with an active source every enabled output (running,
\* when mustRun) holds the base timecode shifted by its own offset at the
\* effective rate, and routing again with another output's slider at either end
\* leaves what it holds unchanged
OwnOffsetRouted(mustRun) ==
    host.op = "timerCallback" =>
        \A k \in 1..Len(host.engines) :
            LET e == host.engines[k]
                fps == IF e.fpsConvertEnabled THEN e.outputFps ELSE e.currentFps
                base == IF e.fpsConvertEnabled
                        THEN convertTimecodeRate(e.currentTimecode, e.currentFps, e.outputFps)
                        ELSE e.currentTimecode
            IN e.sourceActive =>
                   \A o \in OutputStates(e) :
                       (o.enabled /\ (mustRun => o.running)) =>
                           /\ o.pending = offsetTimecode(base, o.offset, fps)
                           /\ \A other \in {"MTC", "ArtNet", "LTC"} \ {o.name} :
                                  \A d \in SliderEnds :
                                      HeldBy(routeTimecodeToOutputs(WithOffset(e, other, d),
                                                                    now), o.name)
                                          = o.pending

\* the outputs of one engine under their toggles, offset sliders and rate
\* controls, the source being the system clock
RouteMaxOps == 3          \* UI operations in a run
RouteMaxTicks == 1        \* timer callbacks in a run

RouteOutputToggle ==
    host.ops < RouteMaxOps /\ \E which \in {"MTC", "ArtNet", "LTC"} : OutputToggle(which)

RouteOffsetSlider ==
    /\ host.ops < RouteMaxOps
    /\ \E which \in {"MTC", "ArtNet", "LTC"} : \E d \in SliderEnds : OffsetSlider(which, d)

RouteFpsButton == host.ops < RouteMaxOps /\ \E fps \in EngFpsChoices : FpsButton(fps)

RouteFpsConvertButton == host.ops < RouteMaxOps /\ FpsConvertButton

RouteOutFpsButton == host.ops < RouteMaxOps /\ \E fps \in EngFpsChoices : OutFpsButton(fps)

RouteTimerCallback == host.ticks < RouteMaxTicks /\ HostTimerCallback

RouteNext ==
    \/ RouteOutputToggle
    \/ RouteOffsetSlider
    \/ RouteFpsButton
    \/ RouteFpsConvertButton
    \/ RouteOutFpsButton
    \/ RouteTimerCallback

\* C29 as written: in every tick with an active source each enabled output
\* receives offsetTimecode(base, its own offset, effective fps), effective fps
\* being the output rate under conversion and the input rate otherwise, base the
\* converted input timecode under conversion and the input timecode otherwise;
\* no output's offset changes what another output receives.
C29_EnabledOwnOffset == OwnOffsetRouted(FALSE)

\* C29 amended: the same for each enabled output whose handler is running; an
\* enabled output whose start failed receives nothing.
C29_RunningOwnOffset == OwnOffsetRouted(TRUE)

\* a tick with an active source fed two running outputs whose offsets differ,
\* and they hold different timecodes
C29_Witness ==
    /\ host.op = "timerCallback"
    /\ \E k \in 1..Len(host.engines) :
         LET e == host.engines[k]
         IN /\ e.sourceActive
            /\ \E o1, o2 \in OutputStates(e) :
                 /\ o1.enabled /\ o1.running
                 /\ o2.enabled /\ o2.running
                 /\ o1.offset # o2.offset
                 /\ o1.pending # o2.pending
                 /\ o1.pending # Tc(0, 0, 0, 0)

(***************************************************************************)
(* The engine list under its controls                                      *)
(***************************************************************************)
HostAddEngine ==
    host.ops < HostMaxOps /\ Len(host.engines) < HostMaxEngines /\ AddEngine

HostRemoveEngine ==
    host.ops < HostMaxOps /\ \E index \in 0..(HostMaxEngines - 1) : RemoveEngine(index)

HostSelectEngine ==
    host.ops < HostMaxOps /\ \E index \in 0..(HostMaxEngines - 1) : SelectEngine(index)

HostInputButton ==
    host.ops < HostMaxOps /\ \E src \in {"SystemTime", "LTC"} : InputButton(src)

HostOutputToggle ==
    host.ops < HostMaxOps /\ \E which \in {"LTC", "Thru"} : OutputToggle(which)

HostAudioOutputDevice == host.ops < HostMaxOps /\ AudioOutputDeviceChange

HostThruOutputDevice == host.ops < HostMaxOps /\ ThruOutputDeviceChange

HostNext ==
    \/ HostAddEngine
    \/ HostRemoveEngine
    \/ HostSelectEngine
    \/ HostInputButton
    \/ HostOutputToggle
    \/ HostAudioOutputDevice
    \/ HostThruOutputDevice

ConflictStatus == "CONFLICT: same device as LTC OUT"

\* the status text and the running flag of the handler a start call started
StartedStatus(c) ==
    CASE c.method = "startLtcInput" -> c.after.inputStatusText
      [] c.method = "startLtcOutput" -> c.after.ltcOutStatusText
      [] OTHER -> c.after.thruOutStatusText

StartedRunning(c) ==
    CASE c.method = "startLtcInput" -> c.after.ltcInRunning
      [] c.method = "startLtcOutput" -> c.after.ltcOutRunning
      [] OTHER -> c.after.thruRunning

HostCalls == {host.calls[j] : j \in 1..Len(host.calls)}

\* C8: at any time at most one handler of all engines has a given audio device
\* open, and a start on a device another handler holds fails with a conflict
\* status and leaves the handler stopped.
C8_OneHandlerPerDevice ==
    /\ \A dev \in AudioDevices : \A isInput \in BOOLEAN :
           Cardinality(Holders(host.engines, isInput, dev)) <= 1
    /\ \A c \in HostCalls :
           c.heldBy # {} => ~StartedRunning(c) /\ StartedStatus(c) = ConflictStatus

\* a start of LTC output on the device of the engine's running AudioThru
ThruStolen(c) ==
    c.method = "startLtcOutput" /\ <<c.engine, "AudioThru">> \in c.heldBy

\* a start of AudioThru on the device of the engine's running LTC output
LtcFaced(c) ==
    c.method = "startThruOutput" /\ <<c.engine, "LtcOutput">> \in c.heldBy

C10_PrimaryOwnsThru ==
    /\ Len(host.engines) >= 1
    /\ Cardinality({k \in 1..Len(host.engines) : isPrimary(host.engines[k])}) = 1
    /\ \A k \in 1..Len(host.engines) :
           /\ host.engines[k].engineIndex = k - 1
           /\ (host.engines[k].audioThru # <<>>) <=> isPrimary(host.engines[k])
    /\ \A j \in 1..Len(host.removed) :
           host.removed[j].index = 0 =>
               /\ host.engines[1].engineName = host.removed[j].before[2].engineName
               /\ host.engines[1].audioThru = <<AudioThruNew>>

\* the primary was removed while its AudioThru held a device name from a start,
\* after engines had been added
C10_Witness ==
    /\ host.op = "removeEngine"
    /\ \E j \in 1..Len(host.removed) :
         /\ host.removed[j].index = 0
         /\ host.removed[j].before[1].audioThru[1].currentDeviceName # ""

(***************************************************************************)
(* Start-up: AppSettings::load and loadAndApplyNonAudioSettings            *)
(***************************************************************************)
\* ---- bounds of the start-up runs ----
SettingsMaxEngines == 9   \* entries of the "engines" array of a settings file
StartMaxOps == 3          \* UI operations after start-up

\* the members of EngineSettings the engine takes at start-up
EngineSettingsNew ==
    [inputSource |-> "SystemTime", fpsSelection |-> "FPS_30",
     fpsConvertEnabled |-> FALSE, outputFpsSelection |-> "FPS_30",
     ltcFpsUserOverride |-> FALSE,
     mtcOutEnabled |-> FALSE, artnetOutEnabled |-> FALSE,
     ltcOutEnabled |-> FALSE, thruOutEnabled |-> FALSE,
     mtcOutputOffset |-> 0, artnetOutputOffset |-> 0, ltcOutputOffset |-> 0]

\* entries a settings file holds
SettingsEntries ==
    {EngineSettingsNew,
     [EngineSettingsNew EXCEPT !.inputSource = "MTC", !.fpsSelection = "FPS_25",
                               !.mtcOutEnabled = TRUE, !.mtcOutputOffset = -30],
     [EngineSettingsNew EXCEPT !.inputSource = "LTC", !.ltcFpsUserOverride = TRUE,
                               !.fpsSelection = "FPS_2997", !.artnetOutEnabled = TRUE,
                               !.ltcOutEnabled = TRUE, !.thruOutEnabled = TRUE]}

\* settings files of version 2: n equal entries and a selected engine; <<>> is
\* no readable file
SettingsFiles ==
    {<<>>} \cup
    {<<[engines |-> [k \in 1..n |-> es], selectedEngine |-> s]>> :
        n \in 0..SettingsMaxEngines, es \in SettingsEntries, s \in {0, 1}}

\* AppSettings::load for a version 2 file: engines and selectedEngine
AppSettingsLoad(file) ==
    LET engs == IF file.engines = <<>> THEN <<EngineSettingsNew>> ELSE file.engines
        hi == Len(engs) - 1
    IN [engines |-> engs,
        selectedEngine |-> IF file.selectedEngine < 0 THEN 0
                           ELSE IF file.selectedEngine > hi THEN hi
                           ELSE file.selectedEngine]

\* the body of the per-engine loop of loadAndApplyNonAudioSettings
ApplyEngineSettings(e, es, env, t) ==
    LET e1 == setFrameRate(e, es.fpsSelection, t)
        e2 == setFpsConvertEnabled(e1, es.fpsConvertEnabled, t)
        e3 == setOutputFrameRate(e2, es.outputFpsSelection, t)
        e4 == [e3 EXCEPT !.userOverrodeLtcFps = es.ltcFpsUserOverride,
                         !.outputMtcEnabled = es.mtcOutEnabled,
                         !.outputArtnetEnabled = es.artnetOutEnabled,
                         !.outputLtcEnabled = es.ltcOutEnabled,
                         !.outputThruEnabled = es.thruOutEnabled,
                         !.mtcOutputOffset = es.mtcOutputOffset,
                         !.artnetOutputOffset = es.artnetOutputOffset,
                         !.ltcOutputOffset = es.ltcOutputOffset]
        e5 == setInputSource(e4, es.inputSource)
        e6 == CASE es.inputSource = "MTC" -> startMtcInput(e5, env.midi)
                [] es.inputSource = "ArtNet" -> startArtnetInput(e5, env.bound)
                [] OTHER -> e5
        e7 == IF es.mtcOutEnabled THEN startMtcOutput(e6, env.midi, t) ELSE e6
    IN IF es.artnetOutEnabled THEN startArtnetOutput(e7, env.bound, t) ELSE e7

\* loadAndApplyNonAudioSettings at time t
loadAndApplyNonAudioSettings(h, file, env, t) ==
    IF file = <<>> THEN h
    ELSE LET settings == AppSettingsLoad(file[1])
             n == IF Len(h.engines) < Len(settings.engines)
                  THEN Len(settings.engines) ELSE Len(h.engines)
             grown == [k \in 1..n |-> IF k <= Len(h.engines) THEN h.engines[k]
                                      ELSE TimecodeEngineNew(k - 1, k)]
             hi == Len(grown) - 1
         IN [h EXCEPT !.engines =
                          [k \in 1..n |->
                               IF k <= Len(settings.engines)
                               THEN ApplyEngineSettings(grown[k], settings.engines[k],
                                                        env, t)
                               ELSE grown[k]],
                      !.selectedEngine = IF settings.selectedEngine > hi THEN hi
                                         ELSE settings.selectedEngine]

StartAddEngine == host.ops < StartMaxOps /\ AddEngine

StartRemoveEngine ==
    host.ops < StartMaxOps /\ \E index \in 0..SettingsMaxEngines : RemoveEngine(index)

StartSelectEngine ==
    host.ops < StartMaxOps /\ \E index \in 0..SettingsMaxEngines : SelectEngine(index)

StartupNext ==
    \/ StartAddEngine
    \/ StartRemoveEngine
    \/ StartSelectEngine

\* C11: after start-up with the settings file applied, and after any sequence
\* of addEngine and removeEngine, there are at least 1 and at most 8 engines.
C11_EngineCount ==
    Len(host.engines) >= 1 /\ Len(host.engines) <= kMaxEngines

(***************************************************************************)
(* Shutdown order                                                          *)
(***************************************************************************)
ThruRunning(e) == e.audioThru # <<>> /\ e.audioThru[1].isRunning

OutputsStopped(e) ==
    /\ ~e.mtcOutput.isRunning
    /\ ~e.artnetOutput.isRunning
    /\ ~e.ltcOutput.isRunning
    /\ ~ThruRunning(e)

InputsRunning(e) ==
    {n \in {"Mtc", "Artnet", "Ltc"} :
        CASE n = "Mtc" -> e.mtcInput.isRunning
          [] n = "Artnet" -> e.artnetInput.isRunning
          [] OTHER -> e.ltcInput.isRunning}

\* C12: while an engine is removed (or destroyed: the destructor makes the same
\* calls in the same order) no input handler stops before every output handler
\* of the engine is stopped; and AudioThru never runs while the LTC input of
\* its engine is stopped, neither between operations nor between the stop calls
\* of a removal.
C12_ShutdownOrder ==
    /\ \A k \in 1..Len(host.engines) :
           ThruRunning(host.engines[k]) => host.engines[k].ltcInput.isRunning
    /\ \A j \in 1..Len(host.removed) :
           LET tr == host.removed[j].trace
           IN /\ \A s \in 1..Len(tr) : ThruRunning(tr[s]) => tr[s].ltcInput.isRunning
              /\ \A s \in 1..(Len(tr) - 1) :
                     InputsRunning(tr[s + 1]) # InputsRunning(tr[s]) => OutputsStopped(tr[s])
              /\ OutputsStopped(tr[Len(tr)]) /\ InputsRunning(tr[Len(tr)]) = {}

\* an engine was removed while its LTC input, its LTC output or AudioThru, and
\* hence something to order, were running
C12_Witness ==
    /\ host.op = "removeEngine"
    /\ \E j \in 1..Len(host.removed) :
         LET e == host.removed[j].trace[1]
         IN e.ltcInput.isRunning /\ ThruRunning(e)

(***************************************************************************)
(* TimecodeCore.h called on its own: one call per behaviour                *)
(***************************************************************************)
\* the offset sliders go from -30 to 30 frames (jassert in offsetTimecode)
MaxOffsetFrames == 30

\* the fields of the timecodes the calls are made on: around every carry and
\* around the minutes whose first two frame numbers 29.97 drop-frame skips
CoreHours == {0, 1, 23}
CoreMinutes == {0, 1, 9, 10, 58, 59}
CoreSeconds == {0, 1, 58, 59}
CoreTimecodes(fps) ==
    {tc \in {Tc(h, m, s, f) : h \in CoreHours, m \in CoreMinutes, s \in CoreSeconds,
                              f \in 0..(frameRateToInt(fps) - 1)} : ValidTc(tc, fps)}

\* wall-clock times, in ms since midnight
CoreWallMs == {0, 999, 60000, 600000, 3600000}

\* the millisecond value of tc fits the integers of the model
FitsClock(tc) ==
    tc.hours * 3600 + tc.minutes * 60 + tc.seconds + 1 <= 2147483647 \div (1000 * MsUnit)

CoreIncrementFrame ==
    /\ calc.fn = "args"
    /\ calc' = [calc EXCEPT !.fn = "incrementFrame",
                            !.out = incrementFrame(calc.tc, calc.fps)]
    /\ UNCHANGED <<ringVars, ltcVars, mtcVars, artVars, host, msgThread>>

\* out = offsetTimecode(tc, d, fps), back = offsetTimecode(out, -d, fps)
CoreOffset ==
    /\ calc.fn = "args"
    /\ \E d \in (-MaxOffsetFrames)..MaxOffsetFrames :
         LET out == offsetTimecode(calc.tc, d, calc.fps)
         IN calc' = [calc EXCEPT !.fn = "offsetTimecode", !.arg = d, !.out = out,
                                 !.back = offsetTimecode(out, -d, calc.fps)]
    /\ UNCHANGED <<ringVars, ltcVars, mtcVars, artVars, host, msgThread>>

\* out = convertTimecodeRate(tc, fps, toFps), back = convertTimecodeRate(out, toFps, fps)
CoreConvert ==
    /\ calc.fn = "args"
    /\ FitsClock(calc.tc)
    /\ \E toFps \in FrameRates :
         LET out == convertTimecodeRate(calc.tc, calc.fps, toFps)
         IN /\ FitsClock(out)
            /\ calc' = [calc EXCEPT !.fn = "convertTimecodeRate", !.arg = toFps, !.out = out,
                                    !.back = convertTimecodeRate(out, toFps, calc.fps)]
    /\ UNCHANGED <<ringVars, ltcVars, mtcVars, artVars, host, msgThread>>

\* out = wallClockToTimecode(ms, fps); the timecode drawn is not an argument
CoreWallClock ==
    /\ calc.fn = "args"
    /\ calc.tc = Tc(0, 0, 0, 0)
    /\ \E ms \in CoreWallMs :
         calc' = [calc EXCEPT !.fn = "wallClockToTimecode", !.arg = ms,
                              !.out = wallClockToTimecode(ms * MsUnit, calc.fps)]
    /\ UNCHANGED <<ringVars, ltcVars, mtcVars, artVars, host, msgThread>>

\* decoders the Full Frame reaches: never synced, and locked at 29.97
CoreDecoders ==
    {[MtcInputNew EXCEPT !.isRunning = TRUE],
     [MtcInputNew EXCEPT !.isRunning = TRUE, !.synced = TRUE, !.detectedFps = "FPS_2997",
                         !.lastSyncTimecode = Tc(10, 20, 30, 4)]}

\* an open MtcOutput holding tc at fps sends its Full Frame; MtcInput handles it:
\* out is the decoder afterwards
CoreFullFrame ==
    /\ calc.fn = "args"
    /\ \E i \in CoreDecoders :
         LET o == [MtcOutputNew EXCEPT !.open = TRUE, !.isRunning = TRUE,
                                     !.currentFps = calc.fps, !.pendingTimecode = calc.tc]
             msgs == sendFullFrame(o)
         IN calc' = [calc EXCEPT !.fn = "sendFullFrame", !.arg = i.synced,
                                 !.out = IF msgs = <<>> THEN i
                                         ELSE handleIncomingMidiMessage(i, msgs[1], now)]
    /\ UNCHANGED <<ringVars, ltcVars, mtcVars, artVars, host, msgThread>>

\* packFrame at a new-frame boundary after the first: tc is the frame just
\* sent, arg the timecode setTimecode left (the source one frame behind, on
\* time, one frame ahead, or elsewhere), out the frame the encoder sends next
CorePackFrame ==
    /\ calc.fn = "args"
    /\ \E target \in {calc.tc, incrementFrame(calc.tc, calc.fps),
                       incrementFrame(incrementFrame(calc.tc, calc.fps), calc.fps),
                       Tc(1, 2, 3, 4)} :
         calc' = [calc EXCEPT
                     !.fn = "packFrame", !.arg = target,
                     !.out = NextEncoderTc(
                                 [LtcOutputReset(calc.fps,
                                                 packTimecode(target.hours, target.minutes,
                                                              target.seconds, target.frames))
                                      EXCEPT !.encoderSeeded = TRUE,
                                             !.encoderTc = calc.tc])]
    /\ UNCHANGED <<ringVars, ltcVars, mtcVars, artVars, host, msgThread>>

CoreNext ==
    \/ CoreIncrementFrame \/ CoreOffset \/ CoreConvert \/ CoreWallClock \/ CoreFullFrame
    \/ CorePackFrame

DroppedLabel(tc) == tc.frames < 2 /\ tc.seconds = 0 /\ (tc.minutes % 10) # 0

\* C13: incrementFrame of a timecode valid at its rate is valid at that rate; at
\* 29.97 drop-frame it is never one of the skipped labels (frames < 2, seconds 0,
\* minutes not a multiple of 10); the last frame of 23:59:59 becomes 00:00:00:00.
C13_IncrementFrame ==
    calc.fn = "incrementFrame" =>
        /\ ValidTc(calc.out, calc.fps)
        /\ calc.fps = "FPS_2997" => ~DroppedLabel(calc.out)
        /\ calc.tc = Tc(23, 59, 59, frameRateToInt(calc.fps) - 1) => calc.out = Tc(0, 0, 0, 0)

\* incrementFrame at 29.97 carried into a minute that skips its first labels
C13_Witness ==
    /\ calc.fn = "incrementFrame" /\ calc.fps = "FPS_2997"
    /\ calc.tc = Tc(23, 0, 59, 29) /\ calc.out = Tc(23, 1, 0, 2)


\* the label offsetTimecode computes before its drop-frame patch
OffsetLanding(tc, d, fps) ==
    LET maxFrames == frameRateToInt(fps)
        total == tc.hours * 3600 * maxFrames + tc.minutes * 60 * maxFrames
                     + tc.seconds * maxFrames + tc.frames + d
    IN TcOfTotal(total % (24 * 3600 * maxFrames), maxFrames)

\* C14: offsetting a valid timecode by d in -30..30 and then by -d gives the
\* timecode back, unless the first offset landed on a label 29.97 drop-frame
\* skips; then the result and the timecode are one incrementFrame apart.
C14_OffsetRoundTrip ==
    calc.fn = "offsetTimecode" =>
        \/ calc.back = calc.tc
        \/ /\ calc.fps = "FPS_2997"
           /\ DroppedLabel(OffsetLanding(calc.tc, calc.arg, calc.fps))
           /\ \/ calc.back = incrementFrame(calc.tc, calc.fps)
              \/ incrementFrame(calc.back, calc.fps) = calc.tc


\* C15: between two rates neither of which is 29.97 drop-frame, converting a
\* valid timecode to the other rate and back gives the timecode.
C15_ConvertRoundTrip ==
    (calc.fn = "convertTimecodeRate" /\ calc.fps # "FPS_2997" /\ calc.arg # "FPS_2997")
        => calc.back = calc.tc


WallClockHourCall ==
    calc.fn = "wallClockToTimecode" /\ calc.fps = "FPS_2997" /\ calc.arg = 3600000

\* C16 (as stated): wallClockToTimecode(3 600 000 ms, 29.97 drop-frame) is 00:59:56:12.
C16_WallClockLags == WallClockHourCall => calc.out = Tc(0, 59, 56, 12)

\* C16 (amended): wallClockToTimecode(3 600 000 ms, 29.97 drop-frame) is
\* 01:00:00:00: the 107 892 frames of an hour, numbered with the 108 skipped
\* labels, read the wall-clock time.
C16_WallClockHour == WallClockHourCall => calc.out = Tc(1, 0, 0, 0)

C16_Witness == WallClockHourCall /\ calc.out.hours = 1


\* C17: at 24, 25, 29.97 and 30, when MtcInput handles the Full Frame MtcOutput
\* builds for a valid timecode tc, the decoder is at once synced on tc at the
\* rate of the output, and reports tc as its current timecode.
C17_FullFrame ==
    (calc.fn = "sendFullFrame" /\ calc.fps \in {"FPS_24", "FPS_25", "FPS_2997", "FPS_30"})
        => /\ calc.out.synced
           /\ calc.out.lastSyncTimecode = calc.tc
           /\ calc.out.detectedFps = calc.fps
           /\ MtcInputGetCurrentTimecode(calc.out, now) = calc.tc

\* a decoder locked at 29.97 handled the Full Frame of 23:59:59:24 at 25
C17_Witness ==
    /\ calc.fn = "sendFullFrame" /\ calc.arg
    /\ calc.fps = "FPS_25" /\ calc.tc = Tc(23, 59, 59, 24)
    /\ calc.out.lastSyncTimecode = Tc(23, 59, 59, 24)


(***************************************************************************)
(* One engine on its LTC input: the rate buttons against the detected rate *)
(***************************************************************************)
RateMaxOps == 3
RateMaxTicks == 3

\* the rates onSyncWordDetected stores (src/LtcInput.h:304-312)
LtcDetectedRates == {"FPS_24", "FPS_25", "FPS_2997", "FPS_30"}

RateInputButton == host.ops < RateMaxOps /\ \E src \in {"LTC", "SystemTime"} : InputButton(src)

RateFpsButton == host.ops < RateMaxOps /\ \E fps \in FrameRates : FpsButton(fps)

\* the decoder of the running LTC input publishes a frame with its detected rate
RateLtcFrame ==
    /\ ~host.fed
    /\ currentEngine.activeInput = "LTC" /\ currentEngine.ltcInput.isRunning
    /\ \E fps \in LtcDetectedRates :
         host' = [host EXCEPT !.engines[CurrentK].ltcInput =
                                  LtcInputPublish(@, Tc(1, 2, 3, 4), fps, now),
                              !.op = "inputFrame", !.fed = TRUE,
                              !.calls = <<>>, !.removed = <<>>]
    /\ UNCHANGED <<now, notHost>>

RateTimerCallback == host.ticks < RateMaxTicks /\ HostTimerCallback

RateNext == RateInputButton \/ RateFpsButton \/ RateLtcFrame \/ RateTimerCallback

\* ---- C19 ----
\* the engine is on LTC, its input receives at time t, the user chose the rate
\* and the decoder reports the integer rate next to it
AmbiguousAt(e, t) ==
    /\ e.userOverrodeLtcFps
    /\ e.activeInput = "LTC" /\ e.ltcInput.isRunning
    /\ LtcInputIsReceiving(e.ltcInput, t)
    /\ \/ (e.currentFps = "FPS_2398" /\ e.ltcInput.detectedFps = "FPS_24")
       \/ (e.currentFps = "FPS_2997" /\ e.ltcInput.detectedFps = "FPS_30")

\* C19: a tick of an engine whose rate the user chose, on a receiving LTC input
\* whose detected rate is the ambiguous neighbour of that rate (24 for 23.976, 30
\* for 29.97), leaves the rate of the engine and the override flag as they were.
C19_OverrideKept ==
    [][now' # now =>
         \A k \in 1..Len(host.engines) :
             AmbiguousAt(host.engines[k], now') =>
                 /\ host'.engines[k].currentFps = host.engines[k].currentFps
                 /\ host'.engines[k].userOverrodeLtcFps]_vars

\* a tick has just run on an engine the user set to 29.97 while its LTC input
\* reports 30
C19_Witness ==
    /\ host.op = "timerCallback"
    /\ AmbiguousAt(host.engines[1], now)
    /\ host.engines[1].currentFps = "FPS_2997"

\* the same at 23.976 with a decoder reporting 24
C19_Witness2398 ==
    /\ host.op = "timerCallback"
    /\ AmbiguousAt(host.engines[1], now)
    /\ host.engines[1].currentFps = "FPS_2398"

(***************************************************************************)
(* The timed outputs of one engine and the threads their timers run on     *)
(***************************************************************************)
StallMaxMs == 120         \* length of a run, in ms
StallMaxStalls == 1       \* stalls of the message thread in a run

\* a juce::Timer callback is due and the message thread is free to run it
MsgThreadDue ==
    /\ msgThread.state = "running"
    /\ \/ now >= msgThread.tickDue
       \/ artOut.timerMs > 0 /\ now >= artOut.timerDue

\* one millisecond passes and the HighResolutionTimer thread of MtcOutput runs
\* hiResTimerCallback; due callbacks of a free message thread come first
StallHiResTimer ==
    /\ ~MsgThreadDue
    /\ now + MsUnit <= StallMaxMs * MsUnit
    /\ now' = now + MsUnit
    /\ LET r == hiResTimerCallback(mtcOut, now + MsUnit)
       IN /\ mtcOut' = r.o
          /\ mtcCb' = [before |-> mtcOut.lastQfSendTime, at |-> now + MsUnit,
                       fps |-> mtcOut.currentFps, sent |-> r.sent,
                       after |-> r.o.lastQfSendTime]
          /\ mtcTx' = TxNote(mtcTx, r.msgs)
    /\ UNCHANGED <<mtcIn, midiWire, mtcRx, msgThread>>
    /\ UNCHANGED notMtc

\* MainComponent::timerCallback on the message thread: tick routes the next
\* frame of the source to the outputs
StallUiTick ==
    /\ msgThread.state = "running"
    /\ now >= msgThread.tickDue
    /\ LET tc == incrementFrame(msgThread.lastTc, mtcOut.currentFps)
       IN /\ mtcOut' = [mtcOut EXCEPT !.pendingTimecode = tc]
          /\ artOut' = [artOut EXCEPT !.timecodeToSend = tc]
          /\ msgThread' = [msgThread EXCEPT !.lastTc = tc,
                                            !.tickDue = now + UiTickMs * MsUnit]
    /\ UNCHANGED <<ringVars, ltcVars, now, mtcIn, midiWire, mtcCb, mtcTx, mtcRx,
                   artIn, artWire, artSent, host, calc>>

\* ArtnetOutput::timerCallback, a juce::Timer callback, on the message thread
StallArtnetTimer ==
    /\ msgThread.state = "running"
    /\ artOut.timerMs > 0 /\ now >= artOut.timerDue
    /\ artOut' = [artOut EXCEPT !.timerDue = now + artOut.timerMs * MsUnit]
    /\ LET out == ArtnetTimerCallbackSends(artOut)
       IN artSent' = [artSent EXCEPT !.packets =
                         IF out = <<>> THEN artSent.packets
                         ELSE <<[bytes |-> out[1], tc |-> artOut.timecodeToSend,
                                 fps |-> artOut.currentFps]>>]
    /\ UNCHANGED <<ringVars, ltcVars, mtcVars, artIn, artWire, host, calc, msgThread>>

\* the message thread is held up, and released
StallBegin ==
    /\ msgThread.state = "running"
    /\ msgThread.stalls < StallMaxStalls
    /\ msgThread' = [msgThread EXCEPT !.state = "stalled", !.stalls = @ + 1]
    /\ UNCHANGED <<ringVars, ltcVars, mtcVars, artVars, host, calc>>

StallEnd ==
    /\ msgThread.state = "stalled"
    /\ msgThread' = [msgThread EXCEPT !.state = "running"]
    /\ UNCHANGED <<ringVars, ltcVars, mtcVars, artVars, host, calc>>

StallNext == StallHiResTimer \/ StallUiTick \/ StallArtnetTimer \/ StallBegin \/ StallEnd

\* MtcOutput is never behind its quarter-frame schedule
StallMtcOnSchedule ==
    (mtcOut.open /\ ~mtcOut.paused) =>
        now - mtcOut.lastQfSendTime < QfInterval(mtcOut.currentFps) + MsUnit

\* ArtnetOutput is never behind the period of its timer
StallArtnetOnSchedule ==
    (artOut.isRunning /\ ~artOut.paused /\ artOut.timerMs > 0) => now <= artOut.timerDue

\* C20: while the message thread is stalled, and so no tick runs, the running,
\* unpaused timed outputs stay on schedule, MTC quarter-frames and Art-Net
\* packets alike, and what they send is the timecode of the last tick.
C20_OutputsKeepSending ==
    msgThread.state = "stalled" =>
        /\ StallMtcOnSchedule
        /\ StallArtnetOnSchedule
        /\ mtcOut.pendingTimecode = msgThread.lastTc
        /\ artOut.timecodeToSend = msgThread.lastTc

\* ------------------------------------------------------------------------
\* The start operations of TimecodeEngine: return value, handler and status
\* ------------------------------------------------------------------------

StartMethods ==
    {"startMtcInput", "startArtnetInput", "startLtcInput", "startMtcOutput",
     "startArtnetOutput", "startLtcOutput", "startThruOutput"}

\* the arguments and platform outcomes of one start call; a component a
\* start operation does not read is a single value
StartArgs(m) ==
    LET midiCall == m \in {"startMtcInput", "startMtcOutput"}
        netCall == m \in {"startArtnetInput", "startArtnetOutput"}
        outCall == m \in {"startLtcOutput", "startThruOutput"}
    IN [midi : IF midiCall THEN MidiOutcomes ELSE {"ok"},
        bound : IF netCall THEN BOOLEAN ELSE {TRUE},
        dev : IF midiCall \/ netCall THEN {FirstDevice} ELSE AudioDevices \cup {NoDevice},
        opened : IF outCall THEN BOOLEAN ELSE {TRUE},
        numCh : IF m = "startLtcInput" THEN 0..2 ELSE {2},
        thruCh : IF m = "startLtcInput" THEN {-1, 1} ELSE {-1}]

EngineStart(m, e, a, t) ==
    CASE m = "startMtcInput" -> startMtcInput(e, a.midi)
      [] m = "startArtnetInput" -> startArtnetInput(e, a.bound)
      [] m = "startLtcInput" ->
             startLtcInput(e, a.dev.typeName, a.dev.deviceName, 0, a.thruCh, a.numCh)
      [] m = "startMtcOutput" -> startMtcOutput(e, a.midi, t)
      [] m = "startArtnetOutput" -> startArtnetOutput(e, a.bound, t)
      [] m = "startLtcOutput" ->
             startLtcOutput(e, a.dev.typeName, a.dev.deviceName, a.opened)
      [] OTHER -> startThruOutput(e, a.dev.typeName, a.dev.deviceName, a.opened)

\* the bool a start operation returns: true on the one path where the
\* handler's own start() returned true
EngineStartReturns(m, e, a) ==
    CASE m \in {"startMtcInput", "startMtcOutput"} -> a.midi = "ok"
      [] m \in {"startArtnetInput", "startArtnetOutput"} -> a.bound
      [] m = "startLtcInput" ->
             /\ a.dev.deviceName # ""
             /\ LtcInputStart(stopLtcInput(e).ltcInput, a.dev.typeName,
                              a.dev.deviceName, 0, a.thruCh, a.numCh).isRunning
      [] m = "startLtcOutput" ->
             /\ a.dev.deviceName # ""
             /\ LtcOutputStart(stopLtcOutput(e).ltcOutput, a.dev.typeName,
                               a.dev.deviceName, a.opened).isRunning
      [] OTHER ->
             LET e1 == stopThruOutput(e)
             IN /\ e1.audioThru # <<>>
                /\ e1.ltcInput.isRunning /\ hasPassthruChannel(e1.ltcInput)
                /\ a.dev.deviceName # ""
                /\ ~(/\ e1.outputLtcEnabled /\ e1.ltcOutput.isRunning
                     /\ e1.ltcOutput.currentDeviceName = a.dev.deviceName
                     /\ e1.ltcOutput.currentTypeName = a.dev.typeName)
                /\ AudioThruStart(e1.audioThru[1], a.dev.typeName,
                                  a.dev.deviceName, a.opened).isRunning

\* the handler a start operation starts, and the status text it writes
HandlerRunning(m, e) ==
    CASE m = "startMtcInput" -> e.mtcInput.isRunning
      [] m = "startArtnetInput" -> e.artnetInput.isRunning
      [] m = "startLtcInput" -> e.ltcInput.isRunning
      [] m = "startMtcOutput" -> e.mtcOutput.isRunning
      [] m = "startArtnetOutput" -> e.artnetOutput.isRunning
      [] m = "startLtcOutput" -> e.ltcOutput.isRunning
      [] OTHER -> ThruRunning(e)

HandlerStatusText(m, e) ==
    CASE m \in {"startMtcInput", "startArtnetInput", "startLtcInput"} -> e.inputStatusText
      [] m = "startMtcOutput" -> e.mtcOutStatusText
      [] m = "startArtnetOutput" -> e.artnetOutStatusText
      [] m = "startLtcOutput" -> e.ltcOutStatusText
      [] OTHER -> e.thruOutStatusText

\* the texts the start operations write before they return false
FailureTexts ==
    {"NO MIDI DEVICE AVAILABLE", "FAILED TO OPEN DEVICE", "FAILED TO BIND PORT 6454",
     "NO AUDIO DEVICE AVAILABLE", "FAILED TO OPEN AUDIO DEVICE", "NO MIDI DEVICE",
     "FAILED TO OPEN", "FAILED TO BIND", "WAITING FOR LTC INPUT", "NO AUDIO DEVICE",
     "CONFLICT: same device as LTC OUT"}

\* the start calls the program makes on an engine: startThruOutput is only
\* called on the primary engine
StartCalls(e) ==
    UNION {{<<m, a>> : a \in StartArgs(m)} :
               m \in {n \in StartMethods : n = "startThruOutput" => isPrimary(e)}}

\* C21: whenever a start operation of an engine returns false, its handler
\* is not running afterwards and its status text is one of the failure
\* texts; checked for every start call on every engine the engine list can
\* hold
C21_FailedStart ==
    \A k \in 1..Len(host.engines) : \A c \in StartCalls(host.engines[k]) :
        LET e2 == EngineStart(c[1], host.engines[k], c[2], now)
        IN ~EngineStartReturns(c[1], host.engines[k], c[2]) =>
               /\ ~HandlerRunning(c[1], e2)
               /\ HandlerStatusText(c[1], e2) \in FailureTexts

\* a start call that failed: the LTC output started on a device that does
\* not open
C21_Witness ==
    \E i \in 1..Len(host.calls) :
        /\ host.calls[i].method = "startLtcOutput"
        /\ ~host.calls[i].opened
        /\ ~host.calls[i].after.ltcOutRunning
        /\ host.calls[i].after.ltcOutStatusText = "FAILED TO OPEN AUDIO DEVICE"

\* ------------------------------------------------------------------------
\* setTimecode against the quarter-frame cycle of MtcOutput
\* ------------------------------------------------------------------------
CycleMaxMs == 60          \* length of a run of the cycle model, in ms
CycleMaxOps == 3          \* setTimecode calls in a run

\* history: the quarter-frames sent since the last one with index 0, and the
\* pendingTimecode of the moment that one was sent
MtcCycleNone == [cycle |-> <<>>, latched |-> Tc(0, 0, 0, 0), ops |-> 0]

CycleNote(tx, msg, pending) ==
    IF (msg.data \div 16) % 8 = 0
    THEN [tx EXCEPT !.cycle = <<msg>>, !.latched = pending]
    ELSE [tx EXCEPT !.cycle = Append(@, msg)]

\* hiResTimerCallback at time t with a setTimecode(tc) of the message thread
\* landing after its first pass through the while loop: the spin lock lets
\* it in anywhere outside the copy at index 0
hiResTimerCallbackRaced(o, t, tc) ==
    LET fps == o.currentFps
        r1 == QfLoop([o |-> o, lastSend |-> o.lastQfSendTime, sent |-> 1,
                      msgs |-> <<>>], t, QfInterval(fps), fps)
        r2 == QfLoop([o |-> [r1.o EXCEPT !.pendingTimecode = tc],
                      lastSend |-> r1.lastSend, sent |-> 1, msgs |-> <<>>],
                     t, QfInterval(fps), fps)
    IN [o |-> [r2.o EXCEPT !.lastQfSendTime =
                               IF (t - r2.lastSend) > 50 * MsUnit THEN t
                               ELSE r2.lastSend],
        first |-> r1.msgs,
        second |-> r2.msgs]

\* the timer thread runs a callback, on time or after a stall of 25 ms
CycleTimerCallback ==
    /\ mtcOut.timerOn
    /\ \E delay \in {MsUnit, 25 * MsUnit} :
         /\ now + delay <= CycleMaxMs * MsUnit
         /\ now' = now + delay
         /\ LET r == hiResTimerCallback(mtcOut, now + delay)
            IN /\ mtcOut' = r.o
               /\ mtcTx' = IF Len(r.msgs) = 0 THEN mtcTx
                           ELSE IF Len(r.msgs) = 1
                           THEN CycleNote(mtcTx, r.msgs[1], mtcOut.pendingTimecode)
                           ELSE CycleNote(CycleNote(mtcTx, r.msgs[1], mtcOut.pendingTimecode),
                                          r.msgs[2], mtcOut.pendingTimecode)
    /\ UNCHANGED <<mtcIn, midiWire, mtcCb, mtcRx>>
    /\ UNCHANGED notMtc

\* a callback that sends two quarter-frames, with setTimecode between them
CycleTimerCallbackRaced ==
    /\ mtcOut.timerOn
    /\ mtcTx.ops < CycleMaxOps
    /\ now + 25 * MsUnit <= CycleMaxMs * MsUnit
    /\ now' = now + 25 * MsUnit
    /\ \E tc \in MtcSourceTcs(mtcOut.currentFps) :
         LET r == hiResTimerCallbackRaced(mtcOut, now + 25 * MsUnit, tc)
             tx == [mtcTx EXCEPT !.ops = @ + 1]
         IN /\ tc # mtcOut.pendingTimecode
            /\ Len(r.first) = 1 /\ Len(r.second) = 1
            /\ mtcOut' = r.o
            /\ mtcTx' = CycleNote(CycleNote(tx, r.first[1], mtcOut.pendingTimecode),
                                  r.second[1], tc)
    /\ UNCHANGED <<mtcIn, midiWire, mtcCb, mtcRx>>
    /\ UNCHANGED notMtc

\* setTimecode between two callbacks
CycleSetTimecode ==
    /\ mtcTx.ops < CycleMaxOps
    /\ \E tc \in MtcSourceTcs(mtcOut.currentFps) :
         /\ tc # mtcOut.pendingTimecode
         /\ mtcOut' = [mtcOut EXCEPT !.pendingTimecode = tc]
    /\ mtcTx' = [mtcTx EXCEPT !.ops = @ + 1]
    /\ UNCHANGED <<now, mtcIn, midiWire, mtcCb, mtcRx>>
    /\ UNCHANGED notMtc

CycleNext ==
    \/ CycleTimerCallback
    \/ CycleTimerCallbackRaced
    \/ CycleSetTimecode

\* C23: every quarter-frame sent from one index-0 quarter-frame up to the
\* next carries the nibble, for its index, of the timecode that was pending
\* when the index-0 quarter-frame was sent, and the indices follow each other
C23_OneTimecodePerCycle ==
    \A k \in 1..Len(mtcTx.cycle) :
        mtcTx.cycle[k].data =
            sendQuarterFrame([mtcOut EXCEPT !.cycleTimecode = mtcTx.latched],
                             k - 1, mtcOut.currentFps).data

\* a cycle in progress whose timecode has been replaced since its index-0
\* quarter-frame, by a setTimecode inside a callback that went on sending
C23_Witness ==
    /\ Len(mtcTx.cycle) >= 4
    /\ mtcTx.latched # mtcOut.pendingTimecode
    /\ mtcTx.ops >= 2

\* ------------------------------------------------------------------------
\* MtcOutput paused and resumed
\* ------------------------------------------------------------------------
PauseMaxMs == 50          \* length of a run of the pause model, in ms
PauseMaxOps == 4          \* calls of the message thread in a run

\* timecodes routed to the output: the engine passes on what its input
\* published, whose frame number may not exist at the rate of the output
PauseTcs == {Tc(1, 2, 3, 4), Tc(0, 0, 59, 28)}

\* history: calls made; messages sent while paused; whether setPaused(false)
\* found the handler running and paused, with the pending timecode and the
\* rate of that moment and the messages sent from then on; Full Frames sent
\* by anything but such a resume
MtcPauseNone ==
    [ops |-> 0, whilePaused |-> 0, resumed |-> FALSE,
     resume |-> [tc |-> Tc(0, 0, 0, 0), fps |-> "FPS_25"], after |-> <<>>,
     strayFullFrames |-> 0]

RECURSIVE CountType(_, _)
CountType(msgs, type) ==
    IF msgs = <<>> THEN 0
    ELSE (IF Head(msgs).type = type THEN 1 ELSE 0) + CountType(Tail(msgs), type)

\* the messages msgs were sent by a handler whose paused flag was wasPaused
PauseNote(tx, msgs, wasPaused) ==
    [tx EXCEPT !.whilePaused = @ + (IF wasPaused THEN Len(msgs) ELSE 0),
               !.after = IF tx.resumed /\ Len(@) < 3 THEN @ \o msgs ELSE @,
               !.strayFullFrames = @ + CountType(msgs, "sysex")]

PauseTimerCallback ==
    /\ mtcOut.timerOn
    /\ \E delay \in {MsUnit, 5 * MsUnit} :
         /\ now + delay <= PauseMaxMs * MsUnit
         /\ now' = now + delay
         /\ LET r == hiResTimerCallback(mtcOut, now + delay)
            IN /\ mtcOut' = r.o
               /\ mtcTx' = PauseNote(mtcTx, r.msgs, mtcOut.paused)
    /\ UNCHANGED <<mtcIn, midiWire, mtcCb, mtcRx>>
    /\ UNCHANGED notMtc

\* the message thread is idle until its next tick while the output is paused
\* and its timer stopped
PauseIdle ==
    /\ ~mtcOut.timerOn
    /\ now' = (now \div (UiTickMs * MsUnit) + 1) * UiTickMs * MsUnit
    /\ now' <= PauseMaxMs * MsUnit
    /\ UNCHANGED mtcState
    /\ UNCHANGED notMtc

PauseSetTimecode ==
    /\ mtcTx.ops < PauseMaxOps
    /\ UiTurn
    /\ \E tc \in PauseTcs :
         /\ tc # mtcOut.pendingTimecode
         /\ mtcOut' = [mtcOut EXCEPT !.pendingTimecode = tc]
    /\ mtcTx' = [mtcTx EXCEPT !.ops = @ + 1]
    /\ UNCHANGED <<now, mtcIn, midiWire, mtcCb, mtcRx>>
    /\ UNCHANGED notMtc

PauseSetFrameRate ==
    /\ mtcTx.ops < PauseMaxOps
    /\ UiTurn
    /\ \E fps \in {"FPS_25", "FPS_30"} :
         /\ fps # mtcOut.currentFps
         /\ mtcOut' = MtcOutputSetFrameRate(mtcOut, fps, now)
    /\ mtcTx' = [mtcTx EXCEPT !.ops = @ + 1]
    /\ UNCHANGED <<now, mtcIn, midiWire, mtcCb, mtcRx>>
    /\ UNCHANGED notMtc

PauseSetPaused ==
    /\ mtcTx.ops < PauseMaxOps
    /\ UiTurn
    /\ LET r == MtcOutputSetPaused(mtcOut, ~mtcOut.paused, now)
           resuming == mtcOut.paused /\ mtcOut.isRunning
           tx == IF resuming
                 THEN [mtcTx EXCEPT !.resumed = TRUE,
                                    !.resume = [tc |-> mtcOut.pendingTimecode,
                                                fps |-> mtcOut.currentFps],
                                    !.after = <<>>]
                 ELSE [mtcTx EXCEPT !.resumed = FALSE, !.after = <<>>]
       IN /\ mtcOut' = r.o
          /\ mtcTx' = [PauseNote(tx, r.msgs, FALSE) EXCEPT
                           !.ops = @ + 1,
                           !.strayFullFrames = IF resuming THEN mtcTx.strayFullFrames
                                               ELSE @]
    /\ UNCHANGED <<now, mtcIn, midiWire, mtcCb, mtcRx>>
    /\ UNCHANGED notMtc

\* start(deviceIndex) on a device that opens
PauseStart ==
    /\ mtcTx.ops < PauseMaxOps
    /\ UiTurn
    /\ mtcOut' = MtcOutputStart(mtcOut, now, TRUE)
    /\ mtcTx' = [mtcTx EXCEPT !.ops = @ + 1, !.resumed = FALSE, !.after = <<>>]
    /\ UNCHANGED <<now, mtcIn, midiWire, mtcCb, mtcRx>>
    /\ UNCHANGED notMtc

PauseNext ==
    \/ PauseTimerCallback
    \/ PauseIdle
    \/ PauseSetTimecode
    \/ PauseSetFrameRate
    \/ PauseSetPaused
    \/ PauseStart

\* the checks of sendFullFrame on the timecode it is given
FullFrameSendable(tc, fps) ==
    ~(tc.hours > 23 \/ tc.minutes > 59 \/ tc.seconds > 59
          \/ tc.frames >= frameRateToInt(fps))

\* the quarter-frames among msgs carry the indices 0, 1, 2, ... in order
RECURSIVE QfIndicesFrom(_, _)
QfIndicesFrom(msgs, idx) ==
    \/ msgs = <<>>
    \/ /\ Head(msgs).type = "qf"
       /\ (Head(msgs).data \div 16) % 8 = idx
       /\ QfIndicesFrom(Tail(msgs), (idx + 1) % 8)

C24_WitnessNoFullFrame ==
    /\ mtcTx.resumed
    /\ ~FullFrameSendable(mtcTx.resume.tc, mtcTx.resume.fps)
    /\ Len(mtcTx.after) >= 2

\* ------------------------------------------------------------------------
\* The packet cadence of ArtnetOutput
\* ------------------------------------------------------------------------
ArtCadenceMs == 7000      \* length of the Art-Net cadence run, in ms

\* the juce::Timer fires every timerMs, on time, and runs timerCallback;
\* the history counts the packets written
ArtCadenceTimer ==
    /\ artOut.timerMs > 0
    /\ artOut.timerDue <= ArtCadenceMs * MsUnit
    /\ now' = artOut.timerDue
    /\ artOut' = [artOut EXCEPT !.timerDue = artOut.timerDue + artOut.timerMs * MsUnit]
    /\ artSent' = [artSent EXCEPT !.count = @ + Len(ArtnetTimerCallbackSends(artOut))]
    /\ UNCHANGED <<artIn, artWire>>
    /\ UNCHANGED notArt

ArtCadenceNext == ArtCadenceTimer

\* frames that have elapsed at the configured rate since the output started
ArtFramesElapsed == now \div FrameDur(artOut.currentFps)

\* C25: ArtnetOutput sends one packet per frame of the configured rate: at
\* any time the packets sent since the start are within one of the frames
\* elapsed
C25_PacketPerFrame ==
    /\ artSent.count - ArtFramesElapsed <= 1
    /\ ArtFramesElapsed - artSent.count <= 1

\* what the timer does instead: one packet every whole-millisecond interval
\* jmax(1, (int)(1000 / fps)), with nothing carried over
C25_PacketPerTimerPeriod ==
    /\ artOut.timerMs = (1000 * FpsDen(artOut.currentFps)) \div FpsNum(artOut.currentFps)
    /\ artSent.count = now \div (artOut.timerMs * MsUnit)

\* ------------------------------------------------------------------------
\* The source pointer of AudioThru
\* ------------------------------------------------------------------------

\* C26: the source pointer of AudioThru is non-null only while AudioThru is
\* running (stop() nulls it before it removes the audio callback)
C26_SourceOnlyWhileRunning ==
    \A k \in 1..Len(host.engines) :
        host.engines[k].audioThru # <<>> =>
            (host.engines[k].audioThru[1].sourceInput
                 => host.engines[k].audioThru[1].isRunning)

\* the converse holds: a running AudioThru has its source, so its callback
\* reads the ring of the LTC input it was started with
C26_RunningHasSource ==
    \A k \in 1..Len(host.engines) :
        ThruRunning(host.engines[k]) => host.engines[k].audioThru[1].sourceInput

\* ------------------------------------------------------------------------
\* The peak level of LtcOutput against setPaused
\* ------------------------------------------------------------------------

\* the audio thread enters audioDeviceIOCallbackWithContext: it clears the
\* buffers and tests paused; a paused handler returns at once
MeterCallbackBegin ==
    /\ ltcOut.callback = "idle"
    /\ Len(ltcEmitted) < LtcMaxFrames
    /\ ltcOut' = IF ltcOut.paused THEN ltcOut ELSE [ltcOut EXCEPT !.callback = "running"]
    /\ ltcWire' = [k \in 1..LtcBufferSize |-> 0]
    /\ UNCHANGED <<ltcIn, ltcEmitted, ltcPublished>>
    /\ UNCHANGED notLtc

\* ... and, past the test, runs the sample loop and stores the peak
MeterCallbackEnd ==
    /\ ltcOut.callback = "running"
    /\ LET r == EncLoop([e |-> ltcOut, out |-> <<>>, packed |-> <<>>], LtcBufferSize)
       IN /\ ltcOut' = [r.e EXCEPT !.peakLevel = PeakOf(r.out), !.callback = "idle",
                                    !.lateStore = ltcOut.paused]
          /\ ltcWire' = r.out
          /\ ltcEmitted' = ltcEmitted \o r.packed
    /\ UNCHANGED <<ltcIn, ltcPublished>>
    /\ UNCHANGED notLtc

\* setPaused(p) on the message thread, at any point of the audio thread
MeterSetPaused ==
    /\ \E p \in BOOLEAN :
         /\ p # ltcOut.paused
         /\ ltcOut' = LtcEncSetPaused(ltcOut, p)
    /\ UNCHANGED <<ltcIn, ltcWire, ltcEmitted, ltcPublished>>
    /\ UNCHANGED notLtc

MeterNext ==
    \/ MeterCallbackBegin
    \/ MeterCallbackEnd
    \/ MeterSetPaused

\* C27: while LtcOutput is paused its peak level reads zero
C27_PausedPeakZero == ltcOut.paused => ltcOut.peakLevel = 0

\* without a callback in progress at the call it does: a paused handler
\* whose audio thread is idle, or entered the callback after the call, reads
\* zero until a callback that began before a setPaused(true) has ended
C27_PausedPeakZeroAfterIdle ==
    (ltcOut.paused /\ ltcOut.peakLevel # 0) => ltcOut.lateStore

\* ------------------------------------------------------------------------
\* packFrame: continue or snap
\* ------------------------------------------------------------------------

\* a and b are at most one frame apart, in frames sent at the rate
WithinOneFrame(a, b, fps) ==
    a = b \/ incrementFrame(a, fps) = b \/ incrementFrame(b, fps) = a

\* C28: at a new-frame boundary after the first the encoder continues with
\* incrementFrame(previous frame) whenever the target is within one frame
\* of it, in frames sent at the rate, and snaps to the target only otherwise
C28_ContinueOrSnap ==
    calc.fn = "packFrame" =>
        LET next == incrementFrame(calc.tc, calc.fps)
        IN calc.out = IF WithinOneFrame(calc.arg, next, calc.fps) THEN next ELSE calc.arg

\* at the rates without dropped labels the statement holds, the wrap at
\* midnight included
C28_ContinueOrSnapNonDrop ==
    (calc.fn = "packFrame" /\ calc.fps # "FPS_2997") =>
        LET next == incrementFrame(calc.tc, calc.fps)
        IN calc.out = IF WithinOneFrame(calc.arg, next, calc.fps) THEN next ELSE calc.arg

(***************************************************************************)
(* ArtnetInput and the LTC decoder handed input that fails validation      *)
(***************************************************************************)
DropMaxOps == 4           \* datagrams and candidate frames handled in a run
DropStepMs == 40          \* milliseconds between two of them

\* datagrams: ArtTimeCode packets that pass (the last with frame 29 under the
\* rate code of 25 fps), and packets failing one check each (18 bytes,
\* signature, opcode, protocol version 13, one field too large)
ArtDatagrams ==
    LET pkt == ArtTimeCodePacket(Tc(10, 20, 30, 7), 3)
    IN [pass |-> {ArtTimeCodePacket(Tc(1, 2, 3, 4), 1),
                  ArtTimeCodePacket(Tc(23, 59, 59, 29), 2),
                  ArtTimeCodePacket(Tc(10, 20, 30, 29), 1)},
        fail |-> {SubSeq(pkt, 1, 18),
                  [pkt EXCEPT ![1] = 97],
                  [pkt EXCEPT ![8] = 1],
                  [pkt EXCEPT ![10] = 80],
                  [pkt EXCEPT ![12] = 13],
                  ArtTimeCodePacket(Tc(24, 20, 30, 7), 3),
                  ArtTimeCodePacket(Tc(10, 60, 30, 7), 3),
                  ArtTimeCodePacket(Tc(10, 20, 60, 7), 3),
                  ArtTimeCodePacket(Tc(10, 20, 30, 30), 3)}]

\* the digits of a candidate LTC frame: tens and units of each field, the
\* drop-frame flag, and the samples the frame took on the cable
Candidate(ht, hu, mt, mu, st, su, ft, fu, df, samples) ==
    [hourTens |-> ht, hourUnits |-> hu, minTens |-> mt, minUnits |-> mu,
     secTens |-> st, secUnits |-> su, frameTens |-> ft, frameUnits |-> fu,
     dropFrame |-> df, samples |-> samples]

\* candidate frames: frames that pass at 30 and 29.97 frames a second (1600
\* samples) and after a gap, and frames with hours 24 and 39, minutes 60,
\* seconds 79 and frames 30 and 45
LtcCandidates ==
    [pass |-> {Candidate(0, 1, 0, 2, 0, 3, 0, 4, 0, 1600),
               Candidate(2, 3, 5, 9, 5, 9, 2, 9, 1, 1600),
               Candidate(0, 1, 0, 2, 0, 3, 0, 5, 0, 100000)},
     fail |-> {Candidate(2, 4, 2, 0, 3, 0, 0, 7, 0, 1600),
               Candidate(3, 9, 2, 0, 3, 0, 0, 7, 0, 1600),
               Candidate(1, 0, 6, 0, 3, 0, 0, 7, 0, 1600),
               Candidate(1, 0, 2, 0, 7, 9, 0, 7, 1, 1600),
               Candidate(1, 0, 2, 0, 3, 0, 3, 0, 0, 1600),
               Candidate(1, 0, 2, 0, 3, 0, 3, 15, 0, 1600)}]

\* the 80 bits of a candidate frame in the order they reach pushBit: the data
\* bits 0..63 (user bits and the other flags zero), then the sync word
CandidateBits(c) ==
    [k \in 1..80 |->
        LET b == k - 1
        IN CASE b \in 0..3 -> BitOf(c.frameUnits, b)
             [] b \in 8..9 -> BitOf(c.frameTens, b - 8)
             [] b = 10 -> c.dropFrame
             [] b \in 16..19 -> BitOf(c.secUnits, b - 16)
             [] b \in 24..26 -> BitOf(c.secTens, b - 24)
             [] b \in 32..35 -> BitOf(c.minUnits, b - 32)
             [] b \in 40..42 -> BitOf(c.minTens, b - 40)
             [] b \in 48..51 -> BitOf(c.hourUnits, b - 48)
             [] b \in 56..57 -> BitOf(c.hourTens, b - 56)
             [] b \in 64..79 -> LTC_SYNC_WORD[b - 63]
             [] OTHER -> 0]

\* pushBit for bits[lo..hi], evaluated by halves
RECURSIVE PushBits(_, _, _, _)
PushBits(r, bits, lo, hi) ==
    IF lo > hi THEN r
    ELSE IF lo = hi THEN pushBit(r, bits[lo])
    ELSE LET mid == (lo + hi) \div 2
             half == PushBits(r, bits, lo, mid)
         IN IF half.d.halfBitPending \in BOOLEAN
            THEN PushBits(half, bits, mid + 1, hi)
            ELSE half

\* what a receiver publishes
Published(i, stamp) ==
    [packedTimecode |-> i.packedTimecode, detectedFps |-> i.detectedFps, stamp |-> stamp]

\* the note a handled input leaves: what it was, what the receiver had
\* published before it, and the receivers that have dropped an input after
\* publishing one
DropNote(fn, input, before, counter, kind) ==
    [fn |-> fn, input |-> input, before |-> before, counter |-> counter,
     ops |-> IF calc.fn = "none" THEN 1 ELSE calc.ops + 1,
     dropped |-> (IF calc.fn = "none" THEN {} ELSE calc.dropped)
                     \cup (IF kind # "" /\ before.stamp # 0 THEN {kind} ELSE {})]

DropOps == IF calc.fn = "none" THEN 0 ELSE calc.ops

\* ArtnetInput::run reads one datagram
DropArtnetDatagram ==
    /\ DropOps < DropMaxOps
    /\ now' = now + DropStepMs * MsUnit
    /\ \E data \in ArtDatagrams.pass \cup ArtDatagrams.fail :
         /\ artIn' = IF Len(data) >= 19
                     THEN parseArtNetPacket(artIn, data, now')
                     ELSE artIn
         /\ calc' = DropNote("parseArtNetPacket", data,
                             Published(artIn, artIn.lastPacketTime), 0,
                             IF data \in ArtDatagrams.fail THEN "ArtNet" ELSE "")
    /\ UNCHANGED <<artOut, artWire, artSent>>
    /\ UNCHANGED <<ringVars, ltcVars, mtcState, host, msgThread>>

\* the LTC decoder shifts in the bits of one candidate frame
DropLtcCandidate ==
    /\ DropOps < DropMaxOps
    /\ now' = now + DropStepMs * MsUnit
    /\ \E c \in LtcCandidates.pass \cup LtcCandidates.fail :
         LET d == [ltcIn EXCEPT !.samplesSinceLastSync = @ + c.samples]
         IN /\ ltcIn' = PushBits([d |-> d, pub |-> <<>>, stored |-> <<>>, t |-> now'],
                                 CandidateBits(c), 1, 80).d
            /\ calc' = DropNote("onSyncWordDetected", c,
                                Published(ltcIn, ltcIn.lastFrameTime),
                                ltcIn.consecutiveGoodFrames,
                                IF c \in LtcCandidates.fail THEN "LTC" ELSE "")
    /\ UNCHANGED <<ltcOut, ltcWire, ltcEmitted, ltcPublished>>
    /\ UNCHANGED <<ringVars, mtcState, artVars, host, msgThread>>

DropNext == DropArtnetDatagram \/ DropLtcCandidate

\* the checks the claim lists, on a datagram
ArtnetFails(data) ==
    \/ Len(data) < 19
    \/ SubSeq(data, 1, 8) # <<65, 114, 116, 45, 78, 101, 116, 0>>
    \/ <<data[9], data[10]>> # <<0, 151>>
    \/ data[11] * 256 + data[12] < 14
    \/ data[18] > 23 \/ data[17] > 59 \/ data[16] > 59 \/ data[15] > 29

\* the checks the claim lists, on a candidate frame
LtcFails(c) ==
    \/ c.hourTens * 10 + c.hourUnits > 23
    \/ c.minTens * 10 + c.minUnits > 59
    \/ c.secTens * 10 + c.secUnits > 59
    \/ c.frameTens * 10 + c.frameUnits > 29

\* C30: an Art-Net packet or LTC candidate frame that fails validation (short
\* packet, bad signature, opcode or protocol version, or a field with H > 23,
\* M > 59, S > 59 or F > 29) is dropped: the published timecode, the published
\* rate and the receive timestamp stay as they were, and for LTC the
\* consecutive-good-frame counter is reset.
C30_FailedInputDropped ==
    /\ (calc.fn = "parseArtNetPacket" /\ ArtnetFails(calc.input)) =>
           Published(artIn, artIn.lastPacketTime) = calc.before
    /\ (calc.fn = "onSyncWordDetected" /\ LtcFails(calc.input)) =>
           /\ Published(ltcIn, ltcIn.lastFrameTime) = calc.before
           /\ ltcIn.consecutiveGoodFrames = 0

\* C39: whenever ArtnetInput or LtcInput accepts a frame, the frame number it
\* publishes is below the frame modulus of the rate it publishes alongside it
\* (24 for 24 fps, 25 for 25 fps, 30 for 29.97 and 30 fps).
C39_FrameBelowModulus ==
    /\ (calc.fn = "parseArtNetPacket" /\ artIn.lastPacketTime # calc.before.stamp) =>
           unpackTimecode(artIn.packedTimecode).frames < frameRateToInt(artIn.detectedFps)
    /\ (calc.fn = "onSyncWordDetected" /\ ltcIn.lastFrameTime # calc.before.stamp) =>
           unpackTimecode(ltcIn.packedTimecode).frames < frameRateToInt(ltcIn.detectedFps)

\* both receivers had published a timecode, the Art-Net input then dropped a
\* failing datagram, and the LTC decoder has just dropped a failing candidate
\* frame that followed a good one
C30_Witness ==
    /\ calc.fn = "onSyncWordDetected"
    /\ LtcFails(calc.input)
    /\ calc.counter > 0
    /\ calc.dropped = {"ArtNet", "LTC"}
    /\ artIn.lastPacketTime # 0
    /\ ltcIn.lastFrameTime # 0

(***************************************************************************)
(* The rate detection of the LTC decoder over a run of candidate frames    *)
(***************************************************************************)
DetectMaxOps == 5         \* candidate frames and restarts in a run

\* candidate frames: frames that pass, with and without the drop-frame flag,
\* spaced 1600 samples (30 frames a second), 1920 samples (25), and after a gap
\* of more than two seconds; and a frame that fails (minutes 60)
DetectCandidates ==
    {Candidate(0, 1, 0, 2, 0, 3, 0, 4, df, samples) :
         df \in {0, 1}, samples \in {1600, 1920, 100000}}
        \cup {Candidate(1, 0, 6, 0, 3, 0, 0, 7, 0, 1600)}

\* what the last operations on the decoder were, the newest last: a candidate
\* frame (accepted or not, its spacing and what the spacing classifies as) or
\* a reset, each with the rate published after it and whether it stored one
DetectNone == [fn |-> "none", recent |-> <<>>, ops |-> 0]

DetectNote(event) ==
    [fn |-> "detect",
     recent |-> IF Len(calc.recent) < 3 THEN Append(calc.recent, event)
                ELSE Append(Tail(calc.recent), event),
     ops |-> calc.ops + 1]

\* the audio callback decodes the samples of one candidate frame
DetectCandidate ==
    /\ calc.ops < DetectMaxOps
    /\ now' = now + DropStepMs * MsUnit
    /\ \E c \in DetectCandidates :
         LET d == [ltcIn EXCEPT !.samplesSinceLastSync = @ + c.samples]
             r == PushBits([d |-> d, pub |-> <<>>, stored |-> <<>>, t |-> now'],
                           CandidateBits(c), 1, 80)
         IN /\ ltcIn' = r.d
            /\ calc' = DetectNote([kind |-> "frame", accepted |-> ~LtcFails(c),
                                   samples |-> c.samples,
                                   class |-> DetectedRate(c.samples, c.dropFrame = 1),
                                   stored |-> r.stored, rate |-> r.d.detectedFps])
    /\ UNCHANGED <<ltcOut, ltcWire, ltcEmitted, ltcPublished>>
    /\ UNCHANGED <<ringVars, mtcState, artVars, host, msgThread>>

\* LtcInput::start on a running input: resetDecoder, the atomics keep their values
DetectRestart ==
    /\ calc.ops < DetectMaxOps
    /\ now' = now + DropStepMs * MsUnit
    /\ ltcIn' = [LtcInputReset EXCEPT !.packedTimecode = ltcIn.packedTimecode,
                                      !.detectedFps = ltcIn.detectedFps,
                                      !.lastFrameTime = ltcIn.lastFrameTime]
    /\ calc' = DetectNote([kind |-> "reset", accepted |-> FALSE, samples |-> 0,
                           class |-> "", stored |-> <<>>, rate |-> ltcIn.detectedFps])
    /\ UNCHANGED <<ltcOut, ltcWire, ltcEmitted, ltcPublished>>
    /\ UNCHANGED <<ringVars, mtcState, artVars, host, msgThread>>

DetectNext == DetectCandidate \/ DetectRestart

\* C31: whenever the published rate is written, the three most recent candidate
\* frames were all accepted, with no rejected candidate, no decoder reset and
\* no gap of two seconds or more between them.
C31_ThreeAcceptedFrames ==
    (calc.recent # <<>> /\ calc.recent[Len(calc.recent)].stored # <<>>) =>
        /\ Len(calc.recent) = 3
        /\ \A k \in 1..3 : calc.recent[k].kind = "frame" /\ calc.recent[k].accepted
        /\ \A k \in 2..3 : calc.recent[k].samples < 2 * currentSampleRate

\* the third of three accepted frames 1600 samples apart, carrying the
\* drop-frame flag, has published 29.97 in place of the default rate
C31_Witness ==
    /\ Len(calc.recent) = 3
    /\ calc.recent[3].stored = <<"FPS_2997">>
    /\ calc.recent[2].stored = <<>>
    /\ ltcIn.detectedFps = "FPS_2997"
    /\ ltcIn.consecutiveGoodFrames = 3

\* C32: once a rate R has been published, one accepted frame whose spacing
\* classifies as another rate, preceded and followed by frames that classify
\* as R, does not change the published rate away from R.
C32_NoSingleGlitchFlap ==
    Len(calc.recent) = 3 =>
        LET before == calc.recent[1]
            glitch == calc.recent[2]
            after == calc.recent[3]
        IN (/\ \A k \in 1..3 : calc.recent[k].kind = "frame" /\ calc.recent[k].accepted
            /\ before.stored # <<>>
            /\ before.rate = before.class
            /\ glitch.samples # before.samples
            /\ glitch.class # before.class
            /\ after.class = before.class) =>
               /\ glitch.rate = before.rate
               /\ after.rate = before.rate

\* C33: after any sequence of frame-rate buttons, input-source changes and
\* ticks, userOverrodeLtcFps is true only if the active input is LTC and the
\* engine's current rate is 23.976 or 29.97.
C33_OverrideOnlyAmbiguous ==
    \A k \in 1..Len(host.engines) :
        LET e == host.engines[k]
        IN e.userOverrodeLtcFps =>
               e.activeInput = "LTC" /\ e.currentFps \in {"FPS_2398", "FPS_2997"}

(***************************************************************************)
(* The override flag through a settings file                               *)
(***************************************************************************)
\* settings files with one or two entries, as flushSettings writes them for
\* one or two engines
ReloadFiles == {f \in SettingsFiles : f # <<>> /\ Len(f[1].engines) \in 1..2}

ReloadMaxOps == 1         \* rate buttons pressed after start-up
ReloadMaxTicks == 2       \* timer callbacks after start-up

\* applyAudioSettings for the selected engine: its saved source being LTC, the
\* LTC input is started on the device the combo box shows
applyAudioSettings(h, env) ==
    IF h.engines[h.selectedEngine + 1].activeInput = "LTC"
    THEN startCurrentLtcInput(h, env)
    ELSE h

ReloadFpsButton == host.ops < ReloadMaxOps /\ \E fps \in FrameRates : FpsButton(fps)

ReloadTimerCallback == host.ticks < ReloadMaxTicks /\ HostTimerCallback

ReloadNext == ReloadFpsButton \/ RateLtcFrame \/ ReloadTimerCallback

\* C34: after the settings are applied at start-up, an engine whose saved input
\* source is LTC has userOverrodeLtcFps equal to the saved ltcFpsUserOverride.
C34_OverrideReloaded ==
    (calc.fn = "settings" /\ host.op = "init") =>
        \A k \in 1..Len(calc.file.engines) :
            calc.file.engines[k].inputSource = "LTC" =>
                host.engines[k].userOverrodeLtcFps
                    = calc.file.engines[k].ltcFpsUserOverride

\* incrementFrame applied n times
RECURSIVE IncrementFrames(_, _, _)
IncrementFrames(tc, n, fps) ==
    IF n = 0 THEN tc
    ELSE LET next == incrementFrame(tc, fps)
         IN IF next.frames >= 0 THEN IncrementFrames(next, n - 1, fps) ELSE next

\* C35: at 29.97 drop-frame and for every offset d with |d| <= 30,
\* offsetTimecode(tc, d) is the timecode |d| incrementFrame steps after tc
\* (d > 0) or the timecode from which |d| steps lead to tc (d < 0), and it is
\* never a dropped label.
C35_OffsetExact ==
    (calc.fn = "offsetTimecode" /\ calc.fps = "FPS_2997") =>
        /\ calc.arg >= 0 => calc.out = IncrementFrames(calc.tc, calc.arg, calc.fps)
        /\ calc.arg < 0 => IncrementFrames(calc.out, -calc.arg, calc.fps) = calc.tc
        /\ ~DroppedLabel(calc.out)

\* C36: every packet ArtnetOutput emits for an in-range timecode at 24, 25,
\* 29.97 or 30 frames a second is accepted by ArtnetInput's parser and makes it
\* publish the same timecode and the same rate; checked once the datagram has
\* been read.
C36_OutputAccepted ==
    (/\ artSent.packets # <<>>
     /\ artWire = <<>>
     /\ artIn.isRunning
     /\ artSent.packets[1].fps \in {"FPS_24", "FPS_25", "FPS_2997", "FPS_30"}) =>
        /\ unpackTimecode(artIn.packedTimecode) = artSent.packets[1].tc
        /\ artIn.detectedFps = artSent.packets[1].fps
        /\ artIn.lastPacketTime # 0

\* C37: after a call of setFrameRate, setOutputFrameRate or
\* setFpsConvertEnabled (the rate buttons and the conversion button), whatever
\* came before it, the rate held by each output handler of the engine (MTC,
\* Art-Net, LTC) is getEffectiveOutputFps().
C37_HandlersAtEffectiveRate ==
    host.op \in {"fpsButton", "outFpsButton", "fpsConvertButton"} =>
        LET e == currentEngine
        IN /\ e.mtcOutput.currentFps = getEffectiveOutputFps(e)
           /\ e.artnetOutput.currentFps = getEffectiveOutputFps(e)
           /\ e.ltcOutput.pendingFps = getEffectiveOutputFps(e)

(***************************************************************************)
(* MtcInput listening to a 29.97 drop-frame sender: src/MtcInput.h         *)
(***************************************************************************)
ListenMaxMs == 260        \* length of a run of the listening model, in ms
ListenMaxOps == 2         \* pauses, timecode changes, restarts and losses in a run

\* the 1 ms timer of the sender
ListenTimerCallback == TimerFires(MsUnit, ListenMaxMs)

\* a millisecond passes while the timer of the paused sender is stopped
ListenSilence ==
    /\ ~mtcOut.timerOn
    /\ midiWire = <<>>
    /\ now + MsUnit <= ListenMaxMs * MsUnit
    /\ now' = now + MsUnit
    /\ UNCHANGED <<mtcOut, mtcIn, midiWire, mtcCb, mtcTx, mtcRx>>
    /\ UNCHANGED notMtc

\* the sender pauses or resumes: silence on the cable, then a Full Frame
ListenSetPaused ==
    /\ mtcTx.ops < ListenMaxOps
    /\ UiTurn
    /\ LET r == MtcOutputSetPaused(mtcOut, ~mtcOut.paused, now)
       IN /\ mtcOut' = r.o
          /\ midiWire' = midiWire \o r.msgs
    /\ mtcTx' = [mtcTx EXCEPT !.ops = @ + 1]
    /\ UNCHANGED <<now, mtcIn, mtcCb, mtcRx>>
    /\ UNCHANGED notMtc

\* the sender moves to another valid drop-frame timecode
ListenSetTimecode ==
    /\ mtcTx.ops < ListenMaxOps
    /\ UiTurn
    /\ \E tc \in MtcSourceTcs("FPS_2997") :
         /\ tc # mtcOut.pendingTimecode
         /\ mtcOut' = [mtcOut EXCEPT !.pendingTimecode = tc]
    /\ mtcTx' = [mtcTx EXCEPT !.ops = @ + 1]
    /\ UNCHANGED <<now, mtcIn, midiWire, mtcCb, mtcRx>>
    /\ UNCHANGED notMtc

\* stop() and start() of MtcInput while the sender keeps running
ListenRestart ==
    /\ mtcTx.ops < ListenMaxOps
    /\ UiTurn
    /\ mtcIn' = MtcInputStart(MtcInputStop(mtcIn))
    /\ mtcRx' = <<>>
    /\ mtcTx' = [mtcTx EXCEPT !.ops = @ + 1]
    /\ UNCHANGED <<now, mtcOut, midiWire, mtcCb>>
    /\ UNCHANGED notMtc

\* a quarter-frame is lost on the cable
ListenLose ==
    /\ mtcTx.ops < ListenMaxOps
    /\ midiWire # <<>>
    /\ Head(midiWire).type = "qf"
    /\ midiWire' = Tail(midiWire)
    /\ mtcTx' = [mtcTx EXCEPT !.ops = @ + 1]
    /\ UNCHANGED <<now, mtcOut, mtcIn, mtcCb, mtcRx>>
    /\ UNCHANGED notMtc

ListenNext ==
    \/ ListenTimerCallback
    \/ ListenSilence
    \/ MidiDeliver
    \/ ListenSetPaused
    \/ ListenSetTimecode
    \/ ListenRestart
    \/ ListenLose

\* C38: when the detected rate is 29.97 drop-frame and the eight quarter-frames
\* last handled are one in-order cycle of a valid drop-frame timecode,
\* getCurrentTimecode never returns a dropped label (frames < 2 with seconds 0
\* and minutes not a multiple of 10), whether it interpolates, is frozen after
\* the 150 ms timeout or returns the raw sync point.
C38_NoDroppedLabel ==
    (/\ MtcCycleHandled
     /\ mtcRx[1].fps = "FPS_2997"
     /\ ValidTc(mtcRx[1].tc, "FPS_2997")
     /\ mtcIn.detectedFps = "FPS_2997")
        => ~DroppedLabel(MtcInputGetCurrentTimecode(mtcIn, now))

\* C40: MtcInput establishes or updates its sync point from a quarter-frame
\* only when the eight nibbles it assembles come from one complete, in-order
\* cycle of indices 0..7: after start(), or after a missing or out-of-order
\* quarter-frame, no timecode assembled from zeroed or stale nibbles is published.
C40_SyncFromCompleteCycle ==
    [][(/\ midiWire # <<>>
        /\ Head(midiWire).type = "qf"
        /\ mtcIn'.synced
        /\ <<mtcIn'.synced, mtcIn'.lastSyncTimecode, mtcIn'.syncTimeMs>>
               # <<mtcIn.synced, mtcIn.lastSyncTimecode, mtcIn.syncTimeMs>>)
           => MtcCycleHandled']_vars

(***************************************************************************)
(* Specifications                                                          *)
(***************************************************************************)
\* a quiescent LtcOutput / LtcInput pair for the specifications that do not run it
LtcQuiet ==
    /\ ltcOut = LtcOutputReset("FPS_25", <<0, 0, 0, 0>>)
    /\ ltcIn = LtcInputReset
    /\ ltcWire = <<>>
    /\ ltcEmitted = <<>>
    /\ ltcPublished = <<>>

\* one constructed engine, selected, for the specifications that do not run it
HostQuiet == host = HostNew
CalcQuiet == calc = [fn |-> "none"]
MsgThreadQuiet == msgThread = [state |-> "running"]

InitRing == RingInit /\ LtcQuiet /\ MtcQuiet /\ ArtQuiet /\ HostQuiet /\ CalcQuiet /\ MsgThreadQuiet
SpecRing == InitRing /\ [][RingNext]_vars

InitLtc == LtcInit /\ RingInit /\ MtcQuiet /\ ArtQuiet /\ HostQuiet /\ CalcQuiet /\ MsgThreadQuiet
SpecLtc == InitLtc /\ [][LtcNext]_vars

InitMtc == MtcInit /\ RingInit /\ LtcQuiet /\ ArtQuiet /\ HostQuiet /\ CalcQuiet /\ MsgThreadQuiet
SpecMtc == InitMtc /\ [][MtcNext]_vars

InitMtcSched == MtcSchedInit /\ RingInit /\ LtcQuiet /\ ArtQuiet /\ HostQuiet /\ CalcQuiet /\ MsgThreadQuiet
SpecMtcSched == InitMtcSched /\ [][MtcSchedNext]_vars

InitMtcCadence == MtcCadenceInit /\ RingInit /\ LtcQuiet /\ ArtQuiet /\ HostQuiet /\ CalcQuiet /\ MsgThreadQuiet
SpecMtcCadence == InitMtcCadence /\ [][MtcCadenceNext]_vars

InitArt == ArtInit /\ MtcQuiet /\ RingInit /\ LtcQuiet /\ HostQuiet /\ CalcQuiet /\ MsgThreadQuiet
SpecArt == InitArt /\ [][ArtNext]_vars

\* the program after construction with no settings file, the millisecond
\* counter well past the source timeout
InitEngine ==
    /\ host = HostNew
    /\ now = EngStartMs * MsUnit
    /\ MtcStateQuiet /\ RingInit /\ LtcQuiet /\ ArtQuiet /\ CalcQuiet /\ MsgThreadQuiet
SpecEngine == InitEngine /\ [][EngineNext]_vars

InitHost ==
    /\ now = EngStartMs * MsUnit
    /\ host = HostNew
    /\ MtcStateQuiet /\ RingInit /\ LtcQuiet /\ ArtQuiet /\ CalcQuiet /\ MsgThreadQuiet
SpecHost == InitHost /\ [][HostNext]_vars

\* the program after its constructor has applied a settings file
InitStartup ==
    /\ now = EngStartMs * MsUnit
    /\ \E file \in SettingsFiles :
         \E env \in EnvSet(TRUE, TRUE, FALSE, FALSE, FALSE) :
           host = loadAndApplyNonAudioSettings(HostNew, file, env, EngStartMs * MsUnit)
    /\ MtcStateQuiet /\ RingInit /\ LtcQuiet /\ ArtQuiet /\ CalcQuiet /\ MsgThreadQuiet
SpecStartup == InitStartup /\ [][StartupNext]_vars


InitCore ==
    /\ \E fps \in FrameRates : \E tc \in CoreTimecodes(fps) :
           calc = [fn |-> "args", fps |-> fps, tc |-> tc, arg |-> 0, out |-> tc, back |-> tc]
    /\ RingInit /\ LtcQuiet /\ MtcQuiet /\ ArtQuiet /\ HostQuiet /\ MsgThreadQuiet
SpecCore == InitCore /\ [][CoreNext]_vars


InitLtcRate ==
    /\ host = HostNew
    /\ now = EngStartMs * MsUnit
    /\ MtcStateQuiet /\ RingInit /\ LtcQuiet /\ ArtQuiet /\ CalcQuiet /\ MsgThreadQuiet
SpecLtcRate == InitLtcRate /\ [][RateNext]_vars


InitStall ==
    /\ now = 0
    /\ \E fps \in {"FPS_25", "FPS_30"} :
         /\ mtcOut = [MtcOutputSetFrameRate(MtcOutputStart(MtcOutputNew, 0, TRUE), fps, 0)
                          EXCEPT !.pendingTimecode = Tc(1, 2, 3, 4)]
         /\ artOut = [ArtnetOutputSetFrameRate(ArtnetOutputStart(ArtnetOutputNew, 0, TRUE),
                                               fps, 0)
                          EXCEPT !.timecodeToSend = Tc(1, 2, 3, 4)]
    /\ mtcIn = MtcInputNew /\ midiWire = <<>> /\ mtcCb = MtcCbNone
    /\ mtcTx = MtcTxNone /\ mtcRx = <<>>
    /\ artIn = ArtnetInputNew /\ artWire = <<>> /\ artSent = ArtSentNone
    /\ msgThread = [state |-> "running", stalls |-> 0, lastTc |-> Tc(1, 2, 3, 4),
                    tickDue |-> UiTickMs * MsUnit]
    /\ RingInit /\ LtcQuiet /\ HostQuiet /\ CalcQuiet
SpecStall == InitStall /\ [][StallNext]_vars

\* MtcOutput running at some rate, the message thread routing timecodes to it
InitMtcCycle ==
    /\ now = 0
    /\ \E fps \in {"FPS_25", "FPS_2997"} : \E tc \in MtcSourceTcs(fps) :
         mtcOut = [MtcOutputSetFrameRate(MtcOutputStart(MtcOutputNew, 0, TRUE), fps, 0)
                       EXCEPT !.pendingTimecode = tc]
    /\ mtcIn = MtcInputNew
    /\ midiWire = <<>>
    /\ mtcCb = MtcCbNone
    /\ mtcTx = MtcCycleNone
    /\ mtcRx = <<>>
    /\ RingInit /\ LtcQuiet /\ ArtQuiet /\ HostQuiet /\ CalcQuiet /\ MsgThreadQuiet
SpecMtcCycle == InitMtcCycle /\ [][CycleNext]_vars

\* MtcOutput just started on an open device
InitMtcPause ==
    /\ now = 0
    /\ \E fps \in {"FPS_25", "FPS_30"} :
         mtcOut = MtcOutputSetFrameRate(MtcOutputStart(MtcOutputNew, 0, TRUE), fps, 0)
    /\ mtcIn = MtcInputNew
    /\ midiWire = <<>>
    /\ mtcCb = MtcCbNone
    /\ mtcTx = MtcPauseNone
    /\ mtcRx = <<>>
    /\ RingInit /\ LtcQuiet /\ ArtQuiet /\ HostQuiet /\ CalcQuiet /\ MsgThreadQuiet
SpecMtcPause == InitMtcPause /\ [][PauseNext]_vars

\* ArtnetOutput started at some rate with its socket bound
InitArtCadence ==
    /\ now = 0
    /\ \E fps \in {"FPS_24", "FPS_25", "FPS_2997", "FPS_30"} :
         artOut = ArtnetOutputSetFrameRate(ArtnetOutputStart(ArtnetOutputNew, 0, TRUE),
                                           fps, 0)
    /\ artIn = ArtnetInputNew
    /\ artWire = <<>>
    /\ artSent = [count |-> 0]
    /\ MtcStateQuiet /\ RingInit /\ LtcQuiet /\ HostQuiet /\ CalcQuiet /\ MsgThreadQuiet
SpecArtCadence == InitArtCadence /\ [][ArtCadenceNext]_vars

\* LtcOutput just started on an open device
InitLtcMeter == LtcInit /\ RingInit /\ MtcQuiet /\ ArtQuiet /\ HostQuiet /\ CalcQuiet /\ MsgThreadQuiet
SpecLtcMeter == InitLtcMeter /\ [][MeterNext]_vars

\* one engine on the system clock, its outputs being switched and offset
InitRoute ==
    /\ host = HostNew
    /\ now = EngStartMs * MsUnit
    /\ MtcStateQuiet /\ RingInit /\ LtcQuiet /\ ArtQuiet /\ CalcQuiet /\ MsgThreadQuiet
SpecRoute == InitRoute /\ [][RouteNext]_vars

\* a bound Art-Net input and a reset LTC decoder, nothing received yet
InitDrop ==
    /\ artIn = [ArtnetInputNew EXCEPT !.isRunning = TRUE]
    /\ artOut = ArtnetOutputNew /\ artWire = <<>> /\ artSent = ArtSentNone
    /\ now = EngStartMs * MsUnit
    /\ MtcStateQuiet /\ RingInit /\ LtcQuiet /\ HostQuiet /\ CalcQuiet /\ MsgThreadQuiet
SpecDrop == InitDrop /\ [][DropNext]_vars

\* a started LTC input, nothing decoded yet
InitLtcDetect ==
    /\ calc = DetectNone
    /\ now = EngStartMs * MsUnit
    /\ MtcStateQuiet /\ RingInit /\ LtcQuiet /\ ArtQuiet /\ HostQuiet /\ MsgThreadQuiet
SpecLtcDetect == InitLtcDetect /\ [][DetectNext]_vars

\* the program after its constructor has applied a settings file that calc
\* keeps, then under the rate buttons, LTC frames and the timer
InitReload ==
    /\ now = EngStartMs * MsUnit
    /\ \E file \in ReloadFiles :
         \E env \in EnvSet(TRUE, TRUE, FALSE, FALSE, TRUE) :
           /\ calc = [fn |-> "settings", file |-> file[1]]
           /\ host = applyAudioSettings(
                         loadAndApplyNonAudioSettings(HostNew, file, env,
                                                      EngStartMs * MsUnit), env)
    /\ MtcStateQuiet /\ RingInit /\ LtcQuiet /\ ArtQuiet /\ MsgThreadQuiet
SpecReload == InitReload /\ [][ReloadNext]_vars


\* MtcOutput just started at 29.97 on a valid drop-frame timecode, MtcInput
\* started
InitMtcListen ==
    /\ now = 0
    /\ \E tc \in MtcSourceTcs("FPS_2997") :
         mtcOut = [MtcOutputSetFrameRate(MtcOutputStart(MtcOutputNew, 0, TRUE),
                                         "FPS_2997", 0)
                       EXCEPT !.pendingTimecode = tc]
    /\ mtcIn = MtcInputStart(MtcInputNew)
    /\ midiWire = <<>>
    /\ mtcCb = MtcCbNone
    /\ mtcTx = MtcTxNone
    /\ mtcRx = <<>>
    /\ RingInit /\ LtcQuiet /\ ArtQuiet /\ HostQuiet /\ CalcQuiet /\ MsgThreadQuiet
SpecMtcListen == InitMtcListen /\ [][ListenNext]_vars

====
